---------------------------- MODULE Spec2Model ----------------------------
(***************************************************************************)
(* Ingestion and mailbox pipeline of the ESP32 media display               *)
(* (src/src/data_model.cpp, src/src/main.cpp, src/src/ui.cpp).             *)
(*                                                                         *)
(* Text is modelled as a sequence of one-character strings, so that        *)
(* String::indexOf, String::trim, String::length, the FNV hash and the     *)
(* base64 decode are computed on characters as the code computes them.     *)
(*                                                                         *)
(* The specifications given:                                              *)
(*   Spec        the transport tasks at the granularity of framed lines,   *)
(*               the Mailbox and the consumer loop;                        *)
(*   SpecArt     the same, for the lines that carry artwork;               *)
(*   SpecFramer  the transport tasks at the granularity of single bytes    *)
(*               (the read loop of serial_task / wifi_task), feeding the   *)
(*               same line handler.                                        *)
(*   SpecLegacy  the lines of the legacy artwork sequence;                 *)
(*   SpecDecode  snapshot messages with process lists, media blocks,       *)
(*               playlists and queues;                                     *)
(*   SpecCmd     the Command Channel: send_command and wifi_task;          *)
(*   SpecWifi    wifi_task through its connect, drain and read phases,     *)
(*               with a link that comes and goes;                          *)
(*   SpecWifiLive  the same under the scheduler's fairness;                *)
(*   SpecQueues  the two queues with the tasks that use them;              *)
(*   SpecFresh   ui_update at the granularity of its reads and writes of   *)
(*               the freshness flag;                                       *)
(*   SpecOrder   one or both tasks reading single characters of lines      *)
(*               sent back to back;                                        *)
(*   SpecFlags   snapshots with media, artwork, queue and playlist;        *)
(*   SpecClass   lines that hold the marker keys of several message kinds; *)
(*   SpecHash    artwork payloads that agree on the hashed prefix;         *)
(*   SpecRender  the consumer loop with the update interval of ui_update;  *)
(*   SpecRenderLive  the same under the scheduler's fairness;              *)
(*   SpecReconnect  wifi_task reading single characters over connections   *)
(*               that are lost and made again;                             *)
(*   SpecShort   lines around the minimum length;                          *)
(*   SpecMinLen  artwork payloads around the standalone minimum length.    *)
(***************************************************************************)
EXTENDS Integers, Sequences, FiniteSets, TLC

(***************************************************************************)
(* Sizes.  ARTWORK_RGB565_SIZE, HASH_PREFIX, STANDALONE_MIN_B64 and         *)
(* LINE_CAP stand for program constants that are far too large to          *)
(* enumerate; they are scaled down, keeping their order relations (a full  *)
(* raster payload is longer than the hash prefix and than the standalone   *)
(* minimum, and fits in a line).  MIN_LINE_LEN has the program's value.    *)
(***************************************************************************)
\* sizeof(gArtworkRgb565) = 80*80*2 = 12800 in data_model.h:17; scaled.
\* 12800 is 2 modulo 3, and so is 5: a full raster ends in one '=' pad.
ARTWORK_RGB565_SIZE == 5

\* quickHash hashes at most the first 100 characters (data_model.cpp:24); scaled.
HASH_PREFIX == 4

\* A standalone artwork is decoded only if b64len > 100 (data_model.cpp:92); scaled.
STANDALONE_MIN_B64 == 4

\* The line buffer is reset when its length exceeds 65535
\* (data_model.cpp:307 and :427); scaled.
LINE_CAP == 48

\* A framed line is handled only if its trimmed length is > 5 (data_model.cpp:297, :417).
MIN_LINE_LEN == 5

\* The host pads a line with up to LINE_CAP + PadExtra characters (SpecFramer).
PadExtra == 2

---------------------------------------------------------------------------
(***************************************************************************)
(* Arduino String operations                                               *)
(***************************************************************************)
Min(S) == CHOOSE x \in S : \A y \in S : x <= y

\* String::indexOf(pat): 0-based index of the first occurrence, -1 if none.
indexOf(s, pat) ==
    LET n == Len(s)
        m == Len(pat)
        hits == {i \in 1..(n - m + 1) : SubSeq(s, i, i + m - 1) = pat}
    IN  IF hits = {} THEN -1 ELSE Min(hits) - 1

\* isspace() of the C locale.
isspace(c) == c \in {" ", "\t", "\n", "\r", "\f"}

\* String::trim(): leading and trailing whitespace removed.
RECURSIVE skipSpace(_, _, _)
skipSpace(s, i, step) ==
    IF i < 1 \/ i > Len(s) \/ ~isspace(s[i]) THEN i ELSE skipSpace(s, i + step, step)

trim(s) ==
    IF skipSpace(s, 1, 1) > Len(s) THEN <<>>
    ELSE SubSeq(s, skipSpace(s, 1, 1), skipSpace(s, Len(s), -1))

\* The printable ASCII characters, codes 32 to 126, in code order (code 96, the
\* grave accent, is named: it is not used in any text of the model).
AsciiPrintable ==
    <<" ", "!", "\"", "#", "$", "%", "&", "'", "(", ")", "*", "+", ",", "-", ".", "/", "0",
    "1", "2", "3", "4", "5", "6", "7", "8", "9", ":", ";", "<", "=", ">", "?", "@", "A", "B",
    "C", "D", "E", "F", "G", "H", "I", "J", "K", "L", "M", "N", "O", "P", "Q", "R", "S", "T",
    "U", "V", "W", "X", "Y", "Z", "[", "\\", "]", "^", "_", "grave", "a", "b", "c", "d", "e", "f",
    "g", "h", "i", "j", "k", "l", "m", "n", "o", "p", "q", "r", "s", "t", "u", "v", "w", "x",
    "y", "z", "{", "|", "}", "~">>

\* (uint8_t)c for a printable character.
Ord(c) == 31 + (CHOOSE i \in 1..Len(AsciiPrintable) : AsciiPrintable[i] = c)

---------------------------------------------------------------------------
(***************************************************************************)
(* quickHash: 32-bit FNV-1a over at most HASH_PREFIX characters, xor len.  *)
(* A uint32_t is kept as <<high 16 bits, low 16 bits>>.                    *)
(***************************************************************************)
RECURSIVE Xor(_, _)
Xor(a, b) ==
    IF a = 0 THEN b
    ELSE IF b = 0 THEN a
    ELSE ((a + b) % 2) + 2 * Xor(a \div 2, b \div 2)

\* h ^= x for x < 65536.
U32XorLow(h, x) == <<h[1], Xor(h[2], x)>>

\* h *= 16777619u (0x01000193 = 2^24 + 403), modulo 2^32.
U32MulPrime(h) ==
    LET lo403 == h[2] * 403
        hi403 == h[1] * 403 + (lo403 \div 65536)
    IN  <<(hi403 + (h[2] % 256) * 256) % 65536, lo403 % 65536>>

\* 2166136261u = 0x811C9DC5
FNV_OFFSET == <<33052, 40389>>

RECURSIVE fnvFold(_, _, _, _)
fnvFold(h, str, i, maxLen) ==
    IF i > maxLen THEN h
    ELSE fnvFold(U32MulPrime(U32XorLow(h, Ord(str[i]))), str, i + 1, maxLen)

\* Variant of quickHash: every character is hashed.
quickHash_wholePayload(str, len) ==
    U32XorLow(fnvFold(FNV_OFFSET, str, 1, len), len)

quickHash(str, len) ==
    LET maxLen == IF len > HASH_PREFIX THEN HASH_PREFIX ELSE len
    IN  U32XorLow(fnvFold(FNV_OFFSET, str, 1, maxLen), len)

---------------------------------------------------------------------------
(***************************************************************************)
(* mbedtls_base64_decode(dst, dlen, &olen, src, slen), for sources whose   *)
(* length is a multiple of 4 (every payload of the model).  The first pass *)
(* validates and sizes the output and writes nothing on an error; the      *)
(* second pass writes olen bytes at the start of dst.                      *)
(***************************************************************************)
\* ABCDEFGHIJKLMNOPQRSTUVWXYZabcdefghijklmnopqrstuvwxyz0123456789+/
Base64Alphabet ==
    <<"A", "B", "C", "D", "E", "F", "G", "H", "I", "J", "K", "L", "M", "N", "O", "P", "Q", "R",
    "S", "T", "U", "V", "W", "X", "Y", "Z", "a", "b", "c", "d", "e", "f", "g", "h", "i", "j",
    "k", "l", "m", "n", "o", "p", "q", "r", "s", "t", "u", "v", "w", "x", "y", "z", "0", "1",
    "2", "3", "4", "5", "6", "7", "8", "9", "+", "/">>

IsB64Char(c) == \E i \in 1..Len(Base64Alphabet) : Base64Alphabet[i] = c

B64Val(c) ==
    IF c = "=" THEN 0
    ELSE (CHOOSE i \in 1..Len(Base64Alphabet) : Base64Alphabet[i] = c) - 1

B64Invalid(src) ==
    LET eq == {i \in 1..Len(src) : src[i] = "="}
    IN  \/ \E i \in 1..Len(src) : src[i] # "=" /\ ~IsB64Char(src[i])
        \/ \E i \in eq : \E k \in (i + 1)..Len(src) : src[k] # "="
        \/ Cardinality(eq) > 2

\* Output length computed by the first pass.
B64OutLen(src) ==
    LET n == Len(src)
        j == Cardinality({i \in 1..n : src[i] = "="})
    IN  IF n = 0 THEN 0
        ELSE (6 * (n \div 8)) + ((6 * (n % 8) + 7) \div 8) - j

\* The k-th output byte (1-based) of the second pass.
B64Byte(src, k) ==
    LET g == (k - 1) \div 3
        x == B64Val(src[4 * g + 1]) * 262144 + B64Val(src[4 * g + 2]) * 4096
             + B64Val(src[4 * g + 3]) * 64 + B64Val(src[4 * g + 4])
        r == (k - 1) % 3
    IN  IF r = 0 THEN x \div 65536
        ELSE IF r = 1 THEN (x \div 256) % 256
        ELSE x % 256

\* Result: ret (0 = success), olen, and dst after the call.
mbedtls_base64_decode(dst, dlen, src) ==
    IF B64Invalid(src) THEN [ret |-> -44, olen |-> 0, dst |-> dst]
    ELSE IF dlen < B64OutLen(src) THEN [ret |-> -42, olen |-> B64OutLen(src), dst |-> dst]
    ELSE [ret |-> 0, olen |-> B64OutLen(src),
          dst |-> [k \in 1..Len(dst) |->
                     IF k <= B64OutLen(src) THEN B64Byte(src, k) ELSE dst[k]]]


---------------------------------------------------------------------------
(***************************************************************************)
(* Texts: keys searched by the classifier, string values, base64 payloads  *)
(* and the lines the host sends.                                           *)
(***************************************************************************)
\* artwork_b64
K_artwork_b64 ==
    <<"a", "r", "t", "w", "o", "r", "k", "_", "b", "6", "4">>

\* cpu_percent
K_cpu_percent ==
    <<"c", "p", "u", "_", "p", "e", "r", "c", "e", "n", "t">>

\* "ack"
K_ack ==
    <<"\"", "a", "c", "k", "\"">>

\* play
S_play ==
    <<"p", "l", "a", "y">>

\* pause
S_pause ==
    <<"p", "a", "u", "s", "e">>

\* stop
S_stop ==
    <<"s", "t", "o", "p">>

\* No media
S_NoMedia ==
    <<"N", "o", " ", "m", "e", "d", "i", "a">>

\* T
S_T ==
    <<"T">>

\* AQIDBAU=
P_img1 ==
    <<"A", "Q", "I", "D", "B", "A", "U", "=">>

\* CQgHBgU=
P_img2 ==
    <<"C", "Q", "g", "H", "B", "g", "U", "=">>

\* AQIDBgc= : as long as P_img1 and the same up to the hashed prefix; the
\* image is 1, 2, 3, 6, 7
P_twin ==
    <<"A", "Q", "I", "D", "B", "g", "c", "=">>

\* AQIDBA==
P_short ==
    <<"A", "Q", "I", "D", "B", "A", "=", "=">>

\* AQIDBAUG
P_long ==
    <<"A", "Q", "I", "D", "B", "A", "U", "G">>

\* AQ*DBAU=
P_badchar ==
    <<"A", "Q", "*", "D", "B", "A", "U", "=">>

\* AQID
P_tiny ==
    <<"A", "Q", "I", "D">>

\* {"cpu_percent":5}
L_snapA ==
    <<"{", "\"", "c", "p", "u", "_", "p", "e", "r", "c", "e", "n", "t", "\"", ":", "5", "}">>

\* {"mem_percent":7,"media":{"title":"T"}}
L_snapB ==
    <<"{", "\"", "m", "e", "m", "_", "p", "e", "r", "c", "e", "n", "t", "\"", ":", "7", ",",
    "\"", "m", "e", "d", "i", "a", "\"", ":", "{", "\"", "t", "i", "t", "l", "e", "\"", ":",
    "\"", "T", "\"", "}", "}">>

\* {"mem_percent":7}
L_snapM ==
    <<"{", "\"", "m", "e", "m", "_", "p", "e", "r", "c", "e", "n", "t", "\"", ":", "7", "}">>

\* {"media":{"artwork_png_b64":"AQIDBA=="}}
L_snapArtShort ==
    <<"{", "\"", "m", "e", "d", "i", "a", "\"", ":", "{", "\"", "a", "r", "t", "w", "o", "r",
    "k", "_", "p", "n", "g", "_", "b", "6", "4", "\"", ":", "\"", "A", "Q", "I", "D", "B", "A",
    "=", "=", "\"", "}", "}">>

\* {"media":{"artwork_png_b64":""}}
L_snapArtEmpty ==
    <<"{", "\"", "m", "e", "d", "i", "a", "\"", ":", "{", "\"", "a", "r", "t", "w", "o",
    "r", "k", "_", "p", "n", "g", "_", "b", "6", "4", "\"", ":", "\"", "\"", "}", "}">>

\* "artwork_png_b64":" : the key and the opening quote of its string value
K_artwork_png_b64_value ==
    <<"\"", "a", "r", "t", "w", "o", "r", "k", "_", "p", "n", "g", "_", "b", "6", "4", "\"",
    ":", "\"">>

\* {"cpu_percent":5,"media":{"ack":"x"}}
L_snapAckKey ==
    <<"{", "\"", "c", "p", "u", "_", "p", "e", "r", "c", "e", "n", "t", "\"", ":", "5", ",",
    "\"", "m", "e", "d", "i", "a", "\"", ":", "{", "\"", "a", "c", "k", "\"", ":", "\"",
    "x", "\"", "}", "}">>

\* {"ack":"play","cpu_percent":5}
L_ackCpu ==
    <<"{", "\"", "a", "c", "k", "\"", ":", "\"", "p", "l", "a", "y", "\"", ",", "\"", "c",
    "p", "u", "_", "p", "e", "r", "c", "e", "n", "t", "\"", ":", "5", "}">>

\* {"artwork_b64":"AQIDBAU=","ack":"play"}
L_artAck ==
    <<"{", "\"", "a", "r", "t", "w", "o", "r", "k", "_", "b", "6", "4", "\"", ":", "\"",
    "A", "Q", "I", "D", "B", "A", "U", "=", "\"", ",", "\"", "a", "c", "k", "\"", ":", "\"",
    "p", "l", "a", "y", "\"", "}">>

\* {"artwork_b64":"AQID","cpu_percent":5}
L_artCpu ==
    <<"{", "\"", "a", "r", "t", "w", "o", "r", "k", "_", "b", "6", "4", "\"", ":", "\"",
    "A", "Q", "I", "D", "\"", ",", "\"", "c", "p", "u", "_", "p", "e",
    "r", "c", "e", "n", "t", "\"", ":", "5", "}">>

\* {"cpu_percent":5,"media":{"title":"back"}}
L_snapBack ==
    <<"{", "\"", "c", "p", "u", "_", "p", "e", "r", "c", "e", "n", "t", "\"", ":", "5", ",",
    "\"", "m", "e", "d", "i", "a", "\"", ":", "{", "\"", "t", "i", "t", "l", "e", "\"", ":",
    "\"", "b", "a", "c", "k", "\"", "}", "}">>

\* {"media":{"is_playing":true}}
L_snapPlaying ==
    <<"{", "\"", "m", "e", "d", "i", "a", "\"", ":", "{", "\"", "i", "s", "_", "p", "l",
    "a", "y", "i", "n", "g", "\"", ":", "t", "r", "u", "e", "}", "}">>

\* {"cpu_percent":
L_truncSnap ==
    <<"{", "\"", "c", "p", "u", "_", "p", "e", "r", "c", "e", "n", "t", "\"", ":">>

\* {"mem_percent":7,,}
L_badSnap ==
    <<"{", "\"", "m", "e", "m", "_", "p", "e", "r", "c", "e", "n", "t", "\"", ":", "7", ",",
    ",", "}">>

\* {"ack":"play"}
L_ackPlay ==
    <<"{", "\"", "a", "c", "k", "\"", ":", "\"", "p", "l", "a", "y", "\"", "}">>

\* {"ack":"pause"}
L_ackPause ==
    <<"{", "\"", "a", "c", "k", "\"", ":", "\"", "p", "a", "u", "s", "e", "\"", "}">>

\* {"ack":"stop"}
L_ackStop ==
    <<"{", "\"", "a", "c", "k", "\"", ":", "\"", "s", "t", "o", "p", "\"", "}">>

\* {"artwork_b64":"
L_artPrefix ==
    <<"{", "\"", "a", "r", "t", "w", "o", "r", "k", "_", "b", "6", "4", "\"", ":", "\"">>

\* "}
L_artSuffix ==
    <<"\"", "}">>

\* {"artwork_b64":"AQIDBAU
L_truncArt ==
    <<"{", "\"", "a", "r", "t", "w", "o", "r", "k", "_", "b", "6", "4", "\"", ":", "\"", "A",
    "Q", "I", "D", "B", "A", "U">>

\* artwork_b64":"AQIDBAU="}
L_headlessArt ==
    <<"a", "r", "t", "w", "o", "r", "k", "_", "b", "6", "4", "\"", ":", "\"", "A", "Q", "I",
    "D", "B", "A", "U", "=", "\"", "}">>

\* {}
L_braces ==
    <<"{", "}">>

\* {   }
L_braces5 ==
    <<"{", " ", " ", " ", "}">>

\* {    }
L_braces6 ==
    <<"{", " ", " ", " ", " ", "}">>

\*   {}  (blanks on both sides)
L_bracesPadded ==
    <<" ", " ", "{", "}", " ", " ">>

\* ART_START
L_ART_START ==
    <<"A", "R", "T", "_", "S", "T", "A", "R", "T">>

\* ART_END
L_ART_END ==
    <<"A", "R", "T", "_", "E", "N", "D">>

\* ART_CHUNK:
K_ART_CHUNK ==
    <<"A", "R", "T", "_", "C", "H", "U", "N", "K", ":">>

\* 0102030405
H_all ==
    <<"0", "1", "0", "2", "0", "3", "0", "4", "0", "5">>

\* 010203
H_head ==
    <<"0", "1", "0", "2", "0", "3">>

\* 0405
H_tail ==
    <<"0", "4", "0", "5">>

---------------------------------------------------------------------------
(***************************************************************************)
(* JSON documents.  A JSON value is a tagged record; an object holds a     *)
(* function from its keys to values.  deserializeJson (ArduinoJson) is     *)
(* given by the table JsonTable of the texts the host sends in the model:  *)
(* a text of the table parses to its document, and any other text (a       *)
(* truncated line, a fragment, a malformed line) gives an error.           *)
(***************************************************************************)
Num(n) == [t |-> "num", n |-> n]
Str(s) == [t |-> "str", s |-> s]
Obj(f) == [t |-> "obj", o |-> f]
Arr(a) == [t |-> "arr", a |-> a]
Bool(b) == [t |-> "bool", b |-> b]
\* A number written with one decimal: whole.tenth
Dec(whole, tenth) == [t |-> "dec", n |-> whole, d |-> tenth]

\* Messages that exercise the decoding of the process list and of the media block.
\* LongText is longer than every string field of a Snapshot.
LongLen == 81
LongText == [i \in 1..LongLen |-> "a"]

\* {"cpu_percent_total":42.5,"mem_percent":10,"proc_top5":[{"pid":100,"mem":5.5,"name":"a.exe
\* ","display_name":"App A"}]}
L_procRich ==
    <<"{", "\"", "c", "p", "u", "_", "p", "e", "r", "c", "e", "n", "t", "_", "t", "o", "t",
      "a", "l", "\"", ":", "4", "2", ".", "5", ",", "\"", "m", "e", "m", "_", "p", "e", "r",
      "c", "e", "n", "t", "\"", ":", "1", "0", ",", "\"", "p", "r", "o", "c", "_", "t", "o",
      "p", "5", "\"", ":", "[", "{", "\"", "p", "i", "d", "\"", ":", "1", "0", "0", ",", "\"",
      "m", "e", "m", "\"", ":", "5", ".", "5", ",", "\"", "n", "a", "m", "e", "\"", ":", "\"",
      "a", ".", "e", "x", "e", "\"", ",", "\"", "d", "i", "s", "p", "l", "a", "y", "_", "n",
      "a", "m", "e", "\"", ":", "\"", "A", "p", "p", " ", "A", "\"", "}", "]", "}">>

\* {"cpu_percent_total":3,"cpu_percent":9,"gpu_percent":0.5,"proc_top5":[7,{"pid":2,"mem":12,
\* "name":"n"},"s",{"mem":0.5,"display_name":"D"}]}
L_procMix ==
    <<"{", "\"", "c", "p", "u", "_", "p", "e", "r", "c", "e", "n", "t", "_", "t", "o", "t",
      "a", "l", "\"", ":", "3", ",", "\"", "c", "p", "u", "_", "p", "e", "r", "c", "e", "n",
      "t", "\"", ":", "9", ",", "\"", "g", "p", "u", "_", "p", "e", "r", "c", "e", "n", "t",
      "\"", ":", "0", ".", "5", ",", "\"", "p", "r", "o", "c", "_", "t", "o", "p", "5", "\"",
      ":", "[", "7", ",", "{", "\"", "p", "i", "d", "\"", ":", "2", ",", "\"", "m", "e", "m",
      "\"", ":", "1", "2", ",", "\"", "n", "a", "m", "e", "\"", ":", "\"", "n", "\"", "}", ",",
      "\"", "s", "\"", ",", "{", "\"", "m", "e", "m", "\"", ":", "0", ".", "5", ",", "\"", "d",
      "i", "s", "p", "l", "a", "y", "_", "n", "a", "m", "e", "\"", ":", "\"", "D", "\"", "}",
      "]", "}">>

\* {"proc_top5":[{"pid":1,"mem":1,"name":"p1"},{"pid":2,"mem":2,"name":"p2"},{"pid":3,"mem":3
\* ,"name":"p3"},{"pid":4,"mem":4,"name":"p4"},{"pid":5,"mem":5,"name":"p5"},{"pid":6,"mem":6
\* ,"name":"p6"}]}
L_procSix ==
    <<"{", "\"", "p", "r", "o", "c", "_", "t", "o", "p", "5", "\"", ":", "[", "{", "\"", "p",
      "i", "d", "\"", ":", "1", ",", "\"", "m", "e", "m", "\"", ":", "1", ",", "\"", "n", "a",
      "m", "e", "\"", ":", "\"", "p", "1", "\"", "}", ",", "{", "\"", "p", "i", "d", "\"", ":",
      "2", ",", "\"", "m", "e", "m", "\"", ":", "2", ",", "\"", "n", "a", "m", "e", "\"", ":",
      "\"", "p", "2", "\"", "}", ",", "{", "\"", "p", "i", "d", "\"", ":", "3", ",", "\"", "m",
      "e", "m", "\"", ":", "3", ",", "\"", "n", "a", "m", "e", "\"", ":", "\"", "p", "3", "\"",
      "}", ",", "{", "\"", "p", "i", "d", "\"", ":", "4", ",", "\"", "m", "e", "m", "\"", ":",
      "4", ",", "\"", "n", "a", "m", "e", "\"", ":", "\"", "p", "4", "\"", "}", ",", "{", "\"",
      "p", "i", "d", "\"", ":", "5", ",", "\"", "m", "e", "m", "\"", ":", "5", ",", "\"", "n",
      "a", "m", "e", "\"", ":", "\"", "p", "5", "\"", "}", ",", "{", "\"", "p", "i", "d", "\"",
      ":", "6", ",", "\"", "m", "e", "m", "\"", ":", "6", ",", "\"", "n", "a", "m", "e", "\"",
      ":", "\"", "p", "6", "\"", "}", "]", "}">>

\* {"cpu_top5_process":["a.exe 1%","b",3,"c","d","e"]}
L_procLegacy ==
    <<"{", "\"", "c", "p", "u", "_", "t", "o", "p", "5", "_", "p", "r", "o", "c", "e", "s",
      "s", "\"", ":", "[", "\"", "a", ".", "e", "x", "e", " ", "1", "%", "\"", ",", "\"", "b",
      "\"", ",", "3", ",", "\"", "c", "\"", ",", "\"", "d", "\"", ",", "\"", "e", "\"", "]",
      "}">>

\* {"media":{"title":"T","artist":"A","album":"B","source":"spotify","position_seconds":3,"du
\* ration_seconds":9,"is_playing":true,"shuffle":true,"repeat":"track","is_liked":true,"track
\* _uri":"u1","playlist":{"id":"p","name":"N","snapshot_id":"s","total_tracks":12,"is_public"
\* :true,"is_collaborative":false,"image_thumb_jpg_b64":"AQ=="},"queue":[{"id":"q1","name":"n
\* 1","artist":"a1","album":"b1","duration_seconds":5},7,{"id":"q2","source":"local","is_loca
\* l":true},{"id":"q3"},{"id":"q4"},{"id":"q5"},{"id":"q6"}]}}
L_mediaFull ==
    <<"{", "\"", "m", "e", "d", "i", "a", "\"", ":", "{", "\"", "t", "i", "t", "l", "e", "\"",
      ":", "\"", "T", "\"", ",", "\"", "a", "r", "t", "i", "s", "t", "\"", ":", "\"", "A",
      "\"", ",", "\"", "a", "l", "b", "u", "m", "\"", ":", "\"", "B", "\"", ",", "\"", "s",
      "o", "u", "r", "c", "e", "\"", ":", "\"", "s", "p", "o", "t", "i", "f", "y", "\"", ",",
      "\"", "p", "o", "s", "i", "t", "i", "o", "n", "_", "s", "e", "c", "o", "n", "d", "s",
      "\"", ":", "3", ",", "\"", "d", "u", "r", "a", "t", "i", "o", "n", "_", "s", "e", "c",
      "o", "n", "d", "s", "\"", ":", "9", ",", "\"", "i", "s", "_", "p", "l", "a", "y", "i",
      "n", "g", "\"", ":", "t", "r", "u", "e", ",", "\"", "s", "h", "u", "f", "f", "l", "e",
      "\"", ":", "t", "r", "u", "e", ",", "\"", "r", "e", "p", "e", "a", "t", "\"", ":", "\"",
      "t", "r", "a", "c", "k", "\"", ",", "\"", "i", "s", "_", "l", "i", "k", "e", "d", "\"",
      ":", "t", "r", "u", "e", ",", "\"", "t", "r", "a", "c", "k", "_", "u", "r", "i", "\"",
      ":", "\"", "u", "1", "\"", ",", "\"", "p", "l", "a", "y", "l", "i", "s", "t", "\"", ":",
      "{", "\"", "i", "d", "\"", ":", "\"", "p", "\"", ",", "\"", "n", "a", "m", "e", "\"",
      ":", "\"", "N", "\"", ",", "\"", "s", "n", "a", "p", "s", "h", "o", "t", "_", "i", "d",
      "\"", ":", "\"", "s", "\"", ",", "\"", "t", "o", "t", "a", "l", "_", "t", "r", "a", "c",
      "k", "s", "\"", ":", "1", "2", ",", "\"", "i", "s", "_", "p", "u", "b", "l", "i", "c",
      "\"", ":", "t", "r", "u", "e", ",", "\"", "i", "s", "_", "c", "o", "l", "l", "a", "b",
      "o", "r", "a", "t", "i", "v", "e", "\"", ":", "f", "a", "l", "s", "e", ",", "\"", "i",
      "m", "a", "g", "e", "_", "t", "h", "u", "m", "b", "_", "j", "p", "g", "_", "b", "6", "4",
      "\"", ":", "\"", "A", "Q", "=", "=", "\"", "}", ",", "\"", "q", "u", "e", "u", "e", "\"",
      ":", "[", "{", "\"", "i", "d", "\"", ":", "\"", "q", "1", "\"", ",", "\"", "n", "a", "m",
      "e", "\"", ":", "\"", "n", "1", "\"", ",", "\"", "a", "r", "t", "i", "s", "t", "\"", ":",
      "\"", "a", "1", "\"", ",", "\"", "a", "l", "b", "u", "m", "\"", ":", "\"", "b", "1",
      "\"", ",", "\"", "d", "u", "r", "a", "t", "i", "o", "n", "_", "s", "e", "c", "o", "n",
      "d", "s", "\"", ":", "5", "}", ",", "7", ",", "{", "\"", "i", "d", "\"", ":", "\"", "q",
      "2", "\"", ",", "\"", "s", "o", "u", "r", "c", "e", "\"", ":", "\"", "l", "o", "c", "a",
      "l", "\"", ",", "\"", "i", "s", "_", "l", "o", "c", "a", "l", "\"", ":", "t", "r", "u",
      "e", "}", ",", "{", "\"", "i", "d", "\"", ":", "\"", "q", "3", "\"", "}", ",", "{", "\"",
      "i", "d", "\"", ":", "\"", "q", "4", "\"", "}", ",", "{", "\"", "i", "d", "\"", ":",
      "\"", "q", "5", "\"", "}", ",", "{", "\"", "i", "d", "\"", ":", "\"", "q", "6", "\"",
      "}", "]", "}", "}">>

\* {"media":{"title":"T","artist":"A","playlist":5,"queue":"q"}}
L_mediaBadSubs ==
    <<"{", "\"", "m", "e", "d", "i", "a", "\"", ":", "{", "\"", "t", "i", "t", "l", "e", "\"",
      ":", "\"", "T", "\"", ",", "\"", "a", "r", "t", "i", "s", "t", "\"", ":", "\"", "A",
      "\"", ",", "\"", "p", "l", "a", "y", "l", "i", "s", "t", "\"", ":", "5", ",", "\"", "q",
      "u", "e", "u", "e", "\"", ":", "\"", "q", "\"", "}", "}">>

\* {"proc_top5":[{"mem":1,"name":"<LongText>"}],"media":{"title":"<LongText>","artist":"<Long
\* Text>","album":"<LongText>","source":"<LongText>","track_uri":"<LongText>","playlist":{"id
\* ":"<LongText>","name":"<LongText>","snapshot_id":"<LongText>"},"queue":[{"id":"<LongText>"
\* ,"source":"<LongText>","name":"<LongText>","artist":"<LongText>","album":"<LongText>"}]}}
L_mediaLong ==
    <<"{", "\"", "p", "r", "o", "c", "_", "t", "o", "p", "5", "\"", ":", "[", "{", "\"", "m",
      "e", "m", "\"", ":", "1", ",", "\"", "n", "a", "m", "e", "\"", ":", "\"">>
    \o LongText \o
    <<"\"", "}", "]", ",", "\"", "m", "e", "d", "i", "a", "\"", ":", "{", "\"", "t", "i", "t",
      "l", "e", "\"", ":", "\"">>
    \o LongText \o
    <<"\"", ",", "\"", "a", "r", "t", "i", "s", "t", "\"", ":", "\"">>
    \o LongText \o
    <<"\"", ",", "\"", "a", "l", "b", "u", "m", "\"", ":", "\"">>
    \o LongText \o
    <<"\"", ",", "\"", "s", "o", "u", "r", "c", "e", "\"", ":", "\"">>
    \o LongText \o
    <<"\"", ",", "\"", "t", "r", "a", "c", "k", "_", "u", "r", "i", "\"", ":", "\"">>
    \o LongText \o
    <<"\"", ",", "\"", "p", "l", "a", "y", "l", "i", "s", "t", "\"", ":", "{", "\"", "i", "d",
      "\"", ":", "\"">>
    \o LongText \o
    <<"\"", ",", "\"", "n", "a", "m", "e", "\"", ":", "\"">>
    \o LongText \o
    <<"\"", ",", "\"", "s", "n", "a", "p", "s", "h", "o", "t", "_", "i", "d", "\"", ":", "\"">>
    \o LongText \o
    <<"\"", "}", ",", "\"", "q", "u", "e", "u", "e", "\"", ":", "[", "{", "\"", "i", "d", "\"",
      ":", "\"">>
    \o LongText \o
    <<"\"", ",", "\"", "s", "o", "u", "r", "c", "e", "\"", ":", "\"">>
    \o LongText \o
    <<"\"", ",", "\"", "n", "a", "m", "e", "\"", ":", "\"">>
    \o LongText \o
    <<"\"", ",", "\"", "a", "r", "t", "i", "s", "t", "\"", ":", "\"">>
    \o LongText \o
    <<"\"", ",", "\"", "a", "l", "b", "u", "m", "\"", ":", "\"">>
    \o LongText \o
    <<"\"", "}", "]", "}", "}">>

StandaloneArt(p) == L_artPrefix \o p \o L_artSuffix

\* {"media":{"artwork_png_b64":"<p>"}}
MediaArt(p) ==
    <<"{", "\"", "m", "e", "d", "i", "a", "\"", ":", "{">> \o K_artwork_png_b64_value
    \o p \o <<"\"", "}", "}">>

\* The payloads carried by standalone artwork messages.
StandalonePayloads == <<P_img1, P_img2, P_short, P_long, P_badchar, P_tiny>>

\* A snapshot message is parsed into a 6144-byte document (data_model.cpp:116),
\* which cannot hold a payload of a full raster (more than 17000 characters):
\* an artwork_png_b64 that parses is shorter than a full raster payload, and
\* MediaArt(P_img1) and MediaArt(P_img2), which carry full rasters, have no
\* document here.  The document of a standalone artwork message has 32768
\* bytes (data_model.cpp:84) and holds a full raster payload.
JsonTable ==
    << [text |-> L_snapA, doc |-> Obj([cpu_percent |-> Num(5)])],
       [text |-> L_snapM, doc |-> Obj([mem_percent |-> Num(7)])],
       [text |-> L_snapPlaying,
        doc |-> Obj([media |-> Obj([is_playing |-> Bool(TRUE)])])],
       [text |-> StandaloneArt(P_twin), doc |-> Obj([artwork_b64 |-> Str(P_twin)])],
       [text |-> L_snapAckKey,
        doc |-> Obj([cpu_percent |-> Num(5), media |-> Obj([ack |-> Str(<<"x">>)])])],
       [text |-> L_ackCpu,
        doc |-> Obj([ack |-> Str(S_play), cpu_percent |-> Num(5)])],
       [text |-> L_artAck,
        doc |-> Obj([artwork_b64 |-> Str(P_img1), ack |-> Str(S_play)])],
       [text |-> L_artCpu,
        doc |-> Obj([artwork_b64 |-> Str(P_tiny), cpu_percent |-> Num(5)])],
       [text |-> L_snapBack,
        doc |-> Obj([cpu_percent |-> Num(5), media |-> Obj([title |-> Str(<<"b", "a", "c", "k">>)])])],
       [text |-> L_snapArtEmpty,
        doc |-> Obj([media |-> Obj([artwork_png_b64 |-> Str(<<>>)])])],
       [text |-> L_snapB,
        doc |-> Obj([mem_percent |-> Num(7), media |-> Obj([title |-> Str(S_T)])])],
       [text |-> L_snapArtShort,
        doc |-> Obj([media |-> Obj([artwork_png_b64 |-> Str(P_short)])])],
       [text |-> L_ackPlay, doc |-> Obj([ack |-> Str(S_play)])],
       [text |-> L_ackPause, doc |-> Obj([ack |-> Str(S_pause)])],
       [text |-> L_ackStop, doc |-> Obj([ack |-> Str(S_stop)])],
       [text |-> L_braces, doc |-> Obj(<<>>)],
       [text |-> MediaArt(P_tiny),
        doc |-> Obj([media |-> Obj([artwork_png_b64 |-> Str(P_tiny)])])],
       [text |-> L_braces5, doc |-> Obj(<<>>)],
       [text |-> L_braces6, doc |-> Obj(<<>>)],
       [text |-> L_procRich,
        doc |-> Obj([cpu_percent_total |-> Dec(42, 5),
                    mem_percent |-> Num(10),
                    proc_top5 |-> Arr(<<Obj([pid |-> Num(100),
                                             mem |-> Dec(5, 5),
                                             name |-> Str(<<"a", ".", "e", "x", "e">>),
                                             display_name |-> Str(<<"A", "p", "p", " ", "A">>)])>>)])],
       [text |-> L_procMix,
        doc |-> Obj([cpu_percent_total |-> Num(3),
                    cpu_percent |-> Num(9),
                    gpu_percent |-> Dec(0, 5),
                    proc_top5 |-> Arr(<<Num(7),
                                        Obj([pid |-> Num(2),
                                             mem |-> Num(12),
                                             name |-> Str(<<"n">>)]),
                                        Str(<<"s">>),
                                        Obj([mem |-> Dec(0, 5),
                                             display_name |-> Str(<<"D">>)])>>)])],
       [text |-> L_procSix,
        doc |-> Obj([proc_top5 |-> Arr(<<Obj([pid |-> Num(1),
                                             mem |-> Num(1),
                                             name |-> Str(<<"p", "1">>)]),
                                        Obj([pid |-> Num(2),
                                             mem |-> Num(2),
                                             name |-> Str(<<"p", "2">>)]),
                                        Obj([pid |-> Num(3),
                                             mem |-> Num(3),
                                             name |-> Str(<<"p", "3">>)]),
                                        Obj([pid |-> Num(4),
                                             mem |-> Num(4),
                                             name |-> Str(<<"p", "4">>)]),
                                        Obj([pid |-> Num(5),
                                             mem |-> Num(5),
                                             name |-> Str(<<"p", "5">>)]),
                                        Obj([pid |-> Num(6),
                                             mem |-> Num(6),
                                             name |-> Str(<<"p", "6">>)])>>)])],
       [text |-> L_procLegacy,
        doc |-> Obj([cpu_top5_process |-> Arr(<<Str(<<"a", ".", "e", "x", "e", " ", "1", "%">>),
                                               Str(<<"b">>),
                                               Num(3),
                                               Str(<<"c">>),
                                               Str(<<"d">>),
                                               Str(<<"e">>)>>)])],
       [text |-> L_mediaFull,
        doc |-> Obj([media |-> Obj([title |-> Str(<<"T">>),
                                   artist |-> Str(<<"A">>),
                                   album |-> Str(<<"B">>),
                                   source |-> Str(<<"s", "p", "o", "t", "i", "f", "y">>),
                                   position_seconds |-> Num(3),
                                   duration_seconds |-> Num(9),
                                   is_playing |-> Bool(TRUE),
                                   shuffle |-> Bool(TRUE),
                                   repeat |-> Str(<<"t", "r", "a", "c", "k">>),
                                   is_liked |-> Bool(TRUE),
                                   track_uri |-> Str(<<"u", "1">>),
                                   playlist |-> Obj([id |-> Str(<<"p">>),
                                                     name |-> Str(<<"N">>),
                                                     snapshot_id |-> Str(<<"s">>),
                                                     total_tracks |-> Num(12),
                                                     is_public |-> Bool(TRUE),
                                                     is_collaborative |-> Bool(FALSE),
                                                     image_thumb_jpg_b64 |-> Str(<<"A", "Q", "=", "=">>)]),
                                   queue |-> Arr(<<Obj([id |-> Str(<<"q", "1">>),
                                                        name |-> Str(<<"n", "1">>),
                                                        artist |-> Str(<<"a", "1">>),
                                                        album |-> Str(<<"b", "1">>),
                                                        duration_seconds |-> Num(5)]),
                                                   Num(7),
                                                   Obj([id |-> Str(<<"q", "2">>),
                                                        source |-> Str(<<"l", "o", "c", "a", "l">>),
                                                        is_local |-> Bool(TRUE)]),
                                                   Obj([id |-> Str(<<"q", "3">>)]),
                                                   Obj([id |-> Str(<<"q", "4">>)]),
                                                   Obj([id |-> Str(<<"q", "5">>)]),
                                                   Obj([id |-> Str(<<"q", "6">>)])>>)])])],
       [text |-> L_mediaBadSubs,
        doc |-> Obj([media |-> Obj([title |-> Str(<<"T">>),
                                   artist |-> Str(<<"A">>),
                                   playlist |-> Num(5),
                                   queue |-> Str(<<"q">>)])])],
       [text |-> L_mediaLong,
        doc |-> Obj([proc_top5 |-> Arr(<<Obj([mem |-> Num(1),
                                             name |-> Str(LongText)])>>),
                    media |-> Obj([title |-> Str(LongText),
                                   artist |-> Str(LongText),
                                   album |-> Str(LongText),
                                   source |-> Str(LongText),
                                   track_uri |-> Str(LongText),
                                   playlist |-> Obj([id |-> Str(LongText),
                                                     name |-> Str(LongText),
                                                     snapshot_id |-> Str(LongText)]),
                                   queue |-> Arr(<<Obj([id |-> Str(LongText),
                                                        source |-> Str(LongText),
                                                        name |-> Str(LongText),
                                                        artist |-> Str(LongText),
                                                        album |-> Str(LongText)])>>)])])] >>
    \o [i \in 1..Len(StandalonePayloads) |->
          [text |-> StandaloneArt(StandalonePayloads[i]),
           doc |-> Obj([artwork_b64 |-> Str(StandalonePayloads[i])])]]

\* DeserializationError err = deserializeJson(doc, input)
deserializeJson(input) ==
    LET hit == {i \in 1..Len(JsonTable) : JsonTable[i].text = input}
    IN  IF hit = {} THEN [err |-> TRUE, doc |-> Obj(<<>>)]
        ELSE [err |-> FALSE, doc |-> JsonTable[CHOOSE i \in hit : TRUE].doc]

\* JsonDocument::containsKey / JsonObject::containsKey
containsKey(v, k) == v.t = "obj" /\ k \in DOMAIN v.o

\* v[k].is<JsonObject>()
isObject(v, k) == containsKey(v, k) /\ v.o[k].t = "obj"

\* v[k] | dflt, for a string default and for a number default
StrOr(v, k, dflt) == IF containsKey(v, k) /\ v.o[k].t = "str" THEN v.o[k].s ELSE dflt
NumOr(v, k, dflt) == IF containsKey(v, k) /\ v.o[k].t = "num" THEN v.o[k].n ELSE dflt
BoolOr(v, k, dflt) == IF containsKey(v, k) /\ v.o[k].t = "bool" THEN v.o[k].b ELSE dflt

\* v[k].is<JsonArray>()
isArray(v, k) == containsKey(v, k) /\ v.o[k].t = "arr"

\* v[k].as<float>() and v[k] | 0.0f.  A float is held in tenths: 42.5 is 425.
FloatOr(v, k, dflt) ==
    IF containsKey(v, k) /\ v.o[k].t = "num" THEN 10 * v.o[k].n
    ELSE IF containsKey(v, k) /\ v.o[k].t = "dec" THEN 10 * v.o[k].n + v.o[k].d
    ELSE dflt

\* (uint16_t)n
U16(n) == n % 65536

\* safeStrCopy(dst, dstSize, src): at most dstSize - 1 characters, then a NUL.
safeStrCopy(dstSize, src) ==
    IF dstSize = 0 THEN <<>>
    ELSE SubSeq(src, 1, IF Len(src) >= dstSize THEN dstSize - 1 ELSE Len(src))

TITLE_SIZE == 64
SOURCE_SIZE == 16
TRACKURI_SIZE == 80
MAX_PROCS == 5
PROC_SIZE == 32
MAX_QUEUE_ITEMS == 5
MAX_STR_ESP == 48
ID_SIZE == 64
SNAPSHOT_ID_SIZE == 48

\* The decimal digits of n >= 0.
DecimalDigits == <<"0", "1", "2", "3", "4", "5", "6", "7", "8", "9">>

RECURSIVE Digits(_)
Digits(n) ==
    IF n < 10 THEN <<DecimalDigits[n + 1]>>
    ELSE Digits(n \div 10) \o <<DecimalDigits[(n % 10) + 1]>>

\* printf("%.1f", x) for a float x >= 0 held in tenths.
FormatTenths(x) == Digits(x \div 10) \o <<".">> \o <<DecimalDigits[(x % 10) + 1]>>

\* snprintf(buf, size, "%.1f%% %s", mem, display): at most size - 1 characters.
\* snprintf(buf, size, "%d%% %s", (int)mem, display): the whole part only.
snprintfProc_wholeOnly(size, mem, display) ==
    LET full == Digits(mem \div 10) \o <<"%", " ">> \o display
    IN  SubSeq(full, 1, IF Len(full) > size - 1 THEN size - 1 ELSE Len(full))

snprintfProc(size, mem, display) ==
    LET full == FormatTenths(mem) \o <<"%", " ">> \o display
    IN  SubSeq(full, 1, IF Len(full) > size - 1 THEN size - 1 ELSE Len(full))

---------------------------------------------------------------------------
(***************************************************************************)
(* SnapshotMsg.  parse_json_into_msg fills a local that serial_task and    *)
(* wifi_task declare without an initialiser ("SnapshotMsg msg;"), and it   *)
(* never assigns trackUri, shuffle, repeat, isLiked or hasDiscord: these   *)
(* fields hold whatever the stack held (a trackUri with no NUL in it reads *)
(* as at least TRACKURI_SIZE characters).  StackGarbage lists the values   *)
(* they are drawn from.                                                    *)
(***************************************************************************)
StackGarbage ==
    { [trackUri |-> <<>>, shuffle |-> FALSE, repeat |-> 0, isLiked |-> FALSE,
       hasDiscord |-> FALSE],
      [trackUri |-> [i \in 1..TRACKURI_SIZE |-> "x"], shuffle |-> TRUE, repeat |-> 2,
       isLiked |-> TRUE, hasDiscord |-> TRUE] }

\* A QueueItem and a PlaylistInfo after memset(.., 0, ..).
ZeroQueueItem ==
    [id |-> <<>>, source |-> <<>>, name |-> <<>>, artist |-> <<>>, album |-> <<>>,
     duration |-> 0, isLocal |-> FALSE]

ZeroPlaylist ==
    [id |-> <<>>, name |-> <<>>, snapshotId |-> <<>>, totalTracks |-> 0,
     isPublic |-> FALSE, isCollaborative |-> FALSE, hasImage |-> FALSE]

\* The fields parse_json_into_msg assigns before it looks at "media".
MsgDefaults(garbage) ==
    [cpu |-> 0, mem |-> 0, gpu |-> 0, procCount |-> 0,
     procs |-> [i \in 1..MAX_PROCS |-> <<>>], procPids |-> [i \in 1..MAX_PROCS |-> 0],
     queue |-> [i \in 1..MAX_QUEUE_ITEMS |-> ZeroQueueItem], playlist |-> ZeroPlaylist,
     hasMedia |-> FALSE, hasArtwork |-> FALSE, artworkUpdated |-> FALSE,
     title |-> <<>>, artist |-> <<>>, album |-> <<>>, source |-> <<>>,
     position |-> 0, duration |-> 0, isPlaying |-> FALSE,
     hasQueue |-> FALSE, queueLen |-> 0, hasPlaylist |-> FALSE,
     trackUri |-> garbage.trackUri, shuffle |-> garbage.shuffle,
     repeat |-> garbage.repeat, isLiked |-> garbage.isLiked,
     hasDiscord |-> garbage.hasDiscord]

---------------------------------------------------------------------------
(***************************************************************************)
(* Artwork Buffer: art = [rgb, new, hash] stands for gArtworkRgb565,       *)
(* gArtworkNew and gLastArtworkHash.                                       *)
(***************************************************************************)
\* Variants of decodeArtworkB64: without the comparison of the hash with
\* gLastArtworkHash, and without the comparison of outLen with the raster size.
decodeArtworkB64_noHashCheck(b64, b64Len, art) ==
    LET h == quickHash(b64, b64Len)
        d == mbedtls_base64_decode(art.rgb, ARTWORK_RGB565_SIZE, b64)
    IN  IF d.ret # 0 \/ d.olen # ARTWORK_RGB565_SIZE
        THEN [ret |-> FALSE, art |-> [art EXCEPT !.rgb = d.dst]]
        ELSE [ret |-> TRUE, art |-> [rgb |-> d.dst, new |-> TRUE, hash |-> h]]

decodeArtworkB64_noSizeCheck(b64, b64Len, art) ==
    LET h == quickHash(b64, b64Len)
        d == mbedtls_base64_decode(art.rgb, ARTWORK_RGB565_SIZE, b64)
    IN  IF h = art.hash THEN [ret |-> FALSE, art |-> art]
        ELSE IF d.ret # 0
             THEN [ret |-> FALSE, art |-> [art EXCEPT !.rgb = d.dst]]
        ELSE [ret |-> TRUE, art |-> [rgb |-> d.dst, new |-> TRUE, hash |-> h]]

\* decodeArtworkB64(b64, b64Len): the value returned and the Artwork Buffer
\* afterwards.  mbedtls_base64_decode is given gArtworkRgb565 as its output
\* buffer, so what it wrote stays in the raster when the size check fails.
decodeArtworkB64(b64, b64Len, art) ==
    LET h == quickHash(b64, b64Len)
        d == mbedtls_base64_decode(art.rgb, ARTWORK_RGB565_SIZE, b64)
    IN  IF h = art.hash THEN [ret |-> FALSE, art |-> art]
        ELSE IF d.ret # 0 \/ d.olen # ARTWORK_RGB565_SIZE
             THEN [ret |-> FALSE, art |-> [art EXCEPT !.rgb = d.dst]]
        ELSE [ret |-> TRUE, art |-> [rgb |-> d.dst, new |-> TRUE, hash |-> h]]

\* What parse_json_into_msg reports when it makes no artwork attempt.
NoAttempt == [tried |-> FALSE, b64 |-> <<>>, ret |-> FALSE]

Attempt(b64, art) ==
    [tried |-> TRUE, b64 |-> b64, ret |-> decodeArtworkB64(b64, Len(b64), art).ret]

\* The standalone artwork branch of parse_json_into_msg: the Artwork Buffer
\* afterwards and the call of decodeArtworkB64 made, if any.
parseStandaloneArtwork(input, art) ==
    LET r == deserializeJson(input)
        b64 == StrOr(r.doc, "artwork_b64", <<>>)
    IN  IF r.err THEN [err |-> TRUE, art |-> art, dec |-> NoAttempt]
        ELSE IF containsKey(r.doc, "artwork_b64") /\ Len(b64) > STANDALONE_MIN_B64
             THEN [err |-> FALSE, art |-> decodeArtworkB64(b64, Len(b64), art).art,
                   dec |-> Attempt(b64, art)]
        ELSE [err |-> FALSE, art |-> art, dec |-> NoAttempt]

\* Variant of parseAck: every ack value other than "play" pauses.
parseAck_elsePause(input) ==
    LET r == deserializeJson(input)
        ackVal == StrOr(r.doc, "ack", <<>>)
    IN  IF ~r.err /\ containsKey(r.doc, "ack")
        THEN IF ackVal = S_play THEN "play" ELSE "pause"
        ELSE "none"

\* The ack branch: the call of ui_set_play_state it makes, if any.
parseAck(input) ==
    LET r == deserializeJson(input)
        ackVal == StrOr(r.doc, "ack", <<>>)
    IN  IF ~r.err /\ containsKey(r.doc, "ack")
        THEN IF ackVal = S_play THEN "play"
             ELSE IF ackVal = S_pause THEN "pause" ELSE "none"
        ELSE "none"

\* The entries of proc_top5 that are objects, in order, up to MAX_PROCS: the
\* display string and the pid of each.
RECURSIVE procRich(_, _, _)
procRich(arr, i, acc) ==
    IF i > Len(arr) \/ Len(acc) >= MAX_PROCS THEN acc
    ELSE IF arr[i].t = "obj"
    THEN LET o == arr[i]
             name == StrOr(o, "name", <<>>)
             display == StrOr(o, "display_name", name)
             buf == snprintfProc(PROC_SIZE, FloatOr(o, "mem", 0), display)
         IN  procRich(arr, i + 1,
                      Append(acc, [text |-> safeStrCopy(PROC_SIZE, buf),
                                   pid |-> NumOr(o, "pid", 0)]))
    ELSE procRich(arr, i + 1, acc)

\* serializeJson(v, line) for an entry that is no string; the entries of
\* cpu_top5_process in the model are strings or whole numbers.
serializeJson(v) == IF v.t = "num" THEN Digits(v.n) ELSE <<>>

\* String::remove(index, count)
remove(str, index, count) ==
    SubSeq(str, 1, index) \o SubSeq(str, index + count + 1, Len(str))

S_exe == <<".", "e", "x", "e">>

\* The entries of cpu_top5_process, in order, up to MAX_PROCS: each as text,
\* with its first ".exe" removed, and pid 0.
RECURSIVE procLegacy(_, _, _)
procLegacy(arr, i, acc) ==
    IF i > Len(arr) \/ Len(acc) >= MAX_PROCS THEN acc
    ELSE LET line == IF arr[i].t = "str" THEN arr[i].s ELSE serializeJson(arr[i])
             posExe == indexOf(line, S_exe)
             clean == IF posExe >= 0 THEN remove(line, posExe, 4) ELSE line
         IN  procLegacy(arr, i + 1,
                        Append(acc, [text |-> safeStrCopy(PROC_SIZE, clean), pid |-> 0]))

\* The process list of the snapshot branch.
parseProcs(doc) ==
    IF isArray(doc, "proc_top5") THEN procRich(doc.o["proc_top5"].a, 1, <<>>)
    ELSE IF isArray(doc, "cpu_top5_process")
    THEN procLegacy(doc.o["cpu_top5_process"].a, 1, <<>>)
    ELSE <<>>

S_spotify == <<"s", "p", "o", "t", "i", "f", "y">>

\* Variant of queueItems in which an entry that is no object takes a slot, left
\* as memset made it.
RECURSIVE queueItems_slotForAny(_, _, _)
queueItems_slotForAny(qArr, i, acc) ==
    IF i > Len(qArr) \/ Len(acc) >= MAX_QUEUE_ITEMS THEN acc
    ELSE IF qArr[i].t = "obj"
    THEN LET q == qArr[i]
         IN  queueItems_slotForAny(qArr, i + 1,
               Append(acc,
                 [id |-> safeStrCopy(ID_SIZE, StrOr(q, "id", <<>>)),
                  source |-> safeStrCopy(SOURCE_SIZE, StrOr(q, "source", S_spotify)),
                  name |-> safeStrCopy(MAX_STR_ESP, StrOr(q, "name", <<>>)),
                  artist |-> safeStrCopy(MAX_STR_ESP, StrOr(q, "artist", <<>>)),
                  album |-> safeStrCopy(MAX_STR_ESP, StrOr(q, "album", <<>>)),
                  duration |-> U16(NumOr(q, "duration_seconds", 0)),
                  isLocal |-> BoolOr(q, "is_local", FALSE)]))
    ELSE queueItems_slotForAny(qArr, i + 1, Append(acc, ZeroQueueItem))

\* Variant of queueItems without the test of idx against MAX_QUEUE_ITEMS.
RECURSIVE queueItems_noCap(_, _, _)
queueItems_noCap(qArr, i, acc) ==
    IF i > Len(qArr) THEN acc
    ELSE IF qArr[i].t = "obj"
    THEN LET q == qArr[i]
         IN  queueItems_noCap(qArr, i + 1,
               Append(acc,
                 [id |-> safeStrCopy(ID_SIZE, StrOr(q, "id", <<>>)),
                  source |-> safeStrCopy(SOURCE_SIZE, StrOr(q, "source", S_spotify)),
                  name |-> safeStrCopy(MAX_STR_ESP, StrOr(q, "name", <<>>)),
                  artist |-> safeStrCopy(MAX_STR_ESP, StrOr(q, "artist", <<>>)),
                  album |-> safeStrCopy(MAX_STR_ESP, StrOr(q, "album", <<>>)),
                  duration |-> U16(NumOr(q, "duration_seconds", 0)),
                  isLocal |-> BoolOr(q, "is_local", FALSE)]))
    ELSE queueItems_noCap(qArr, i + 1, acc)

\* The entries of media.queue that are objects, in order, up to MAX_QUEUE_ITEMS.
RECURSIVE queueItems(_, _, _)
queueItems(qArr, i, acc) ==
    IF i > Len(qArr) \/ Len(acc) >= MAX_QUEUE_ITEMS THEN acc
    ELSE IF qArr[i].t = "obj"
    THEN LET q == qArr[i]
         IN  queueItems(qArr, i + 1,
               Append(acc,
                 [id |-> safeStrCopy(ID_SIZE, StrOr(q, "id", <<>>)),
                  source |-> safeStrCopy(SOURCE_SIZE, StrOr(q, "source", S_spotify)),
                  name |-> safeStrCopy(MAX_STR_ESP, StrOr(q, "name", <<>>)),
                  artist |-> safeStrCopy(MAX_STR_ESP, StrOr(q, "artist", <<>>)),
                  album |-> safeStrCopy(MAX_STR_ESP, StrOr(q, "album", <<>>)),
                  duration |-> U16(NumOr(q, "duration_seconds", 0)),
                  isLocal |-> BoolOr(q, "is_local", FALSE)]))
    ELSE queueItems(qArr, i + 1, acc)

\* The playlist context of the media block.
parsePlaylist(pl) ==
    [id |-> safeStrCopy(ID_SIZE, StrOr(pl, "id", <<>>)),
     name |-> safeStrCopy(MAX_STR_ESP, StrOr(pl, "name", <<>>)),
     snapshotId |-> safeStrCopy(SNAPSHOT_ID_SIZE, StrOr(pl, "snapshot_id", <<>>)),
     totalTracks |-> U16(NumOr(pl, "total_tracks", 0)),
     isPublic |-> BoolOr(pl, "is_public", FALSE),
     isCollaborative |-> BoolOr(pl, "is_collaborative", FALSE),
     hasImage |-> Len(StrOr(pl, "image_thumb_jpg_b64", <<>>)) > 0]

\* Variant of artworkFlags: artworkUpdated is set by any attempt.
artworkFlags_updatedOnAttempt(try, decoded) ==
    [hasArtwork |-> try, artworkUpdated |-> try]

\* msg.hasArtwork and msg.artworkUpdated: try is "the key is there and b64len >
\* 0", decoded is the result of decodeArtworkB64.
artworkFlags(try, decoded) ==
    [hasArtwork |-> try, artworkUpdated |-> try /\ decoded]

\* The media block of the snapshot branch: the message and the Artwork Buffer.
parseMedia(media, msg, art) ==
    LET b64 == StrOr(media, "artwork_png_b64", <<>>)
        try == containsKey(media, "artwork_png_b64") /\ Len(b64) > 0
        dec == decodeArtworkB64(b64, Len(b64), art)
        items == IF isArray(media, "queue") THEN queueItems(media.o["queue"].a, 1, <<>>)
                 ELSE <<>>
    IN  [msg |-> [msg EXCEPT
                    !.hasPlaylist = isObject(media, "playlist"),
                    !.playlist = IF isObject(media, "playlist")
                                 THEN parsePlaylist(media.o["playlist"]) ELSE @,
                    !.hasQueue = isArray(media, "queue"),
                    !.queueLen = Len(items),
                    !.queue = [i \in 1..MAX_QUEUE_ITEMS |->
                                 IF i <= Len(items) THEN items[i] ELSE @[i]],
                    !.title = safeStrCopy(TITLE_SIZE, StrOr(media, "title", S_NoMedia)),
                    !.artist = safeStrCopy(TITLE_SIZE, StrOr(media, "artist", <<>>)),
                    !.album = safeStrCopy(TITLE_SIZE, StrOr(media, "album", <<>>)),
                    !.source = safeStrCopy(SOURCE_SIZE, StrOr(media, "source", <<>>)),
                    !.position = NumOr(media, "position_seconds", 0),
                    !.duration = NumOr(media, "duration_seconds", 0),
                    !.isPlaying = BoolOr(media, "is_playing", FALSE),
                    !.hasMedia = TRUE,
                    !.hasArtwork = artworkFlags(try, dec.ret).hasArtwork,
                    !.artworkUpdated = artworkFlags(try, dec.ret).artworkUpdated],
         art |-> IF try THEN dec.art ELSE art,
         dec |-> IF try THEN Attempt(b64, art) ELSE NoAttempt]

\* The snapshot branch after a successful deserializeJson.
parseSnapshot(doc, garbage, art) ==
    LET cpu == IF containsKey(doc, "cpu_percent_total") THEN FloatOr(doc, "cpu_percent_total", 0)
               ELSE IF containsKey(doc, "cpu_percent") THEN FloatOr(doc, "cpu_percent", 0)
               ELSE 0
        entries == parseProcs(doc)
        base == [MsgDefaults(garbage) EXCEPT
                    !.cpu = cpu,
                    !.mem = FloatOr(doc, "mem_percent", 0),
                    !.gpu = FloatOr(doc, "gpu_percent", 0),
                    !.procCount = Len(entries),
                    !.procs = [i \in 1..MAX_PROCS |->
                                 IF i <= Len(entries) THEN entries[i].text ELSE @[i]],
                    !.procPids = [i \in 1..MAX_PROCS |->
                                    IF i <= Len(entries) THEN entries[i].pid ELSE @[i]]]
    IN  IF isObject(doc, "media") THEN parseMedia(doc.o["media"], base, art)
        ELSE [msg |-> base, art |-> art, dec |-> NoAttempt]

\* Variant of snapshotReturns: the error of deserializeJson is not checked.
snapshotReturns_ignoreError(err) == TRUE

\* Whether the snapshot branch returns true, given deserializeJson's error.
snapshotReturns(err) == ~err

\* Variant of standaloneReturns: the branch returns what decodeArtworkB64 returned.
standaloneReturns_decodeResult(dec) == dec.tried /\ dec.ret

\* What the standalone artwork branch returns, given the artwork attempt it
\* made: "return false;  // Don't queue this as a snapshot".
standaloneReturns(dec) == FALSE

\* Variant of parse_json_into_msg: the ack test comes before the artwork test.
parse_json_into_msg_ackFirst(input, garbage, art) ==
    IF indexOf(input, K_ack) > 0
    THEN [ret |-> FALSE, route |-> "ack", err |-> deserializeJson(input).err,
          msg |-> MsgDefaults(garbage), art |-> art, dec |-> NoAttempt,
          play |-> parseAck(input)]
    ELSE IF indexOf(input, K_artwork_b64) > 0 /\ indexOf(input, K_cpu_percent) < 0
    THEN LET a == parseStandaloneArtwork(input, art)
         IN  [ret |-> ~a.err /\ standaloneReturns(a.dec), route |-> "artwork", err |-> a.err,
              msg |-> MsgDefaults(garbage), art |-> a.art, dec |-> a.dec,
              play |-> "none"]
    ELSE LET r == deserializeJson(input)
             s == parseSnapshot(r.doc, garbage, art)
         IN  IF ~snapshotReturns(r.err)
             THEN [ret |-> FALSE, route |-> "snapshot", err |-> r.err,
                   msg |-> MsgDefaults(garbage), art |-> art, dec |-> NoAttempt,
                   play |-> "none"]
             ELSE [ret |-> TRUE, route |-> "snapshot", err |-> r.err, msg |-> s.msg,
                   art |-> s.art, dec |-> s.dec, play |-> "none"]

\* parse_json_into_msg(input, msg): ret; the branch taken (route); whether
\* deserializeJson reported an error (err); the message filled in (meaningful
\* when ret); the Artwork Buffer afterwards; the artwork attempt made (dec);
\* the ui_set_play_state call made (play).
parse_json_into_msg(input, garbage, art) ==
    IF indexOf(input, K_artwork_b64) > 0 /\ indexOf(input, K_cpu_percent) < 0
    THEN LET a == parseStandaloneArtwork(input, art)
         IN  [ret |-> ~a.err /\ standaloneReturns(a.dec), route |-> "artwork", err |-> a.err,
              msg |-> MsgDefaults(garbage), art |-> a.art, dec |-> a.dec,
              play |-> "none"]
    ELSE IF indexOf(input, K_ack) > 0
    THEN [ret |-> FALSE, route |-> "ack", err |-> deserializeJson(input).err,
          msg |-> MsgDefaults(garbage), art |-> art, dec |-> NoAttempt,
          play |-> parseAck(input)]
    ELSE LET r == deserializeJson(input)
             s == parseSnapshot(r.doc, garbage, art)
         IN  IF ~snapshotReturns(r.err)
             THEN [ret |-> FALSE, route |-> "snapshot", err |-> r.err,
                   msg |-> MsgDefaults(garbage), art |-> art, dec |-> NoAttempt,
                   play |-> "none"]
             ELSE [ret |-> TRUE, route |-> "snapshot", err |-> r.err, msg |-> s.msg,
                   art |-> s.art, dec |-> s.dec, play |-> "none"]

---------------------------------------------------------------------------
(***************************************************************************)
(* FreeRTOS queue primitives on the Mailbox, a queue of length 1 created   *)
(* by data_model_init.  The queue is a sequence of messages.  Each call    *)
(* copies the whole item inside a critical section: it is one step.        *)
(* The handle is taken to be non-null after data_model_init.               *)
(***************************************************************************)
\* xQueueCreate(1, sizeof(SnapshotMsg))
SNAPSHOT_QUEUE_LENGTH == 1

\* Variants of xQueueOverwrite: xQueueSend with no wait (a full queue refuses the
\* item), a queue created with room for more items, and a copy that is not
\* indivisible (the fields after cpu are not written yet).
xQueueOverwrite_refuseWhenFull(q, msg) == IF q = <<>> THEN <<msg>> ELSE q
xQueueOverwrite_queueBehind(q, msg) == Append(q, msg)
xQueueOverwrite_torn(q, msg) ==
    IF q = <<>> THEN <<msg>> ELSE <<[q[1] EXCEPT !.cpu = msg.cpu]>>

\* xQueueOverwrite(q, &msg): the queue afterwards.
xQueueOverwrite(q, msg) == <<msg>>

\* Variant of xQueueReceive: xQueuePeek, which leaves the item in the queue.
xQueueReceive_peek(q) ==
    IF q = <<>> THEN [ok |-> FALSE, item |-> <<>>, q |-> q]
    ELSE [ok |-> TRUE, item |-> <<Head(q)>>, q |-> q]

\* xQueueReceive(q, &msg, 0): pdTRUE or pdFALSE, the items copied out (at most
\* one), and the queue afterwards.
xQueueReceive(q) ==
    IF q = <<>> THEN [ok |-> FALSE, item |-> <<>>, q |-> q]
    ELSE [ok |-> TRUE, item |-> <<Head(q)>>, q |-> Tail(q)]

\* data_model_try_dequeue(msg)
data_model_try_dequeue(q) == xQueueReceive(q)

---------------------------------------------------------------------------
(***************************************************************************)
(* The Command Channel: gCommandQueue, a queue of CMD_QUEUE_SIZE commands  *)
(* of CMD_MAX_LEN bytes each, filled by send_command and emptied by        *)
(* wifi_task while it is connected.                                        *)
(***************************************************************************)
CMD_QUEUE_SIZE == 8
CMD_MAX_LEN == 128

\* strncpy(buf, cmd, CMD_MAX_LEN - 1); buf[CMD_MAX_LEN - 1] = 0
strncpyCmd(cmd) ==
    SubSeq(cmd, 1, IF Len(cmd) > CMD_MAX_LEN - 1 THEN CMD_MAX_LEN - 1 ELSE Len(cmd))

\* Variant of xQueueSend that makes room by discarding the oldest item.
xQueueSend_dropOldest(q, item, xTicksToWait) ==
    IF Len(q) < CMD_QUEUE_SIZE
    THEN [q |-> Append(q, item), ret |-> TRUE, waited |-> FALSE]
    ELSE [q |-> Append(Tail(q), item), ret |-> TRUE, waited |-> FALSE]

\* Variant of xQueueSend that waits for room whatever wait is asked for.
xQueueSend_waitForRoom(q, item, xTicksToWait) ==
    IF Len(q) < CMD_QUEUE_SIZE
    THEN [q |-> Append(q, item), ret |-> TRUE, waited |-> FALSE]
    ELSE [q |-> q, ret |-> FALSE, waited |-> TRUE]

\* xQueueSend(q, item, xTicksToWait) on gCommandQueue: the queue afterwards, pdTRUE
\* or errQUEUE_FULL, and whether the caller was blocked.  A full queue blocks the
\* caller only for a wait that is not 0; the item is then refused when the wait
\* runs out with the queue still full.
xQueueSend(q, item, xTicksToWait) ==
    IF Len(q) < CMD_QUEUE_SIZE
    THEN [q |-> Append(q, item), ret |-> TRUE, waited |-> FALSE]
    ELSE [q |-> q, ret |-> FALSE, waited |-> xTicksToWait > 0]

\* What send_command writes to Serial, and what wifi_task prints to the client:
\* the command, then a newline if the command does not end in one.
withNewline(cmd) ==
    IF Len(cmd) > 0 /\ cmd[Len(cmd)] = "\n" THEN cmd ELSE Append(cmd, "\n")

\* Variant of framerFeed: the buffer is emptied one character later.
framerFeed_lateReset(buf, c) ==
    IF c = "\n" THEN [buf |-> <<>>, emit |-> TRUE, line |-> trim(buf)]
    ELSE IF c # "\r"
         THEN IF Len(buf) + 1 > LINE_CAP + 1
              THEN [buf |-> <<>>, emit |-> FALSE, line |-> <<>>]
              ELSE [buf |-> Append(buf, c), emit |-> FALSE, line |-> <<>>]
    ELSE [buf |-> buf, emit |-> FALSE, line |-> <<>>]

---------------------------------------------------------------------------
(***************************************************************************)
(* Line Framer: the body of the read loop of serial_task and wifi_task for *)
(* one character c.  Result: the buffer afterwards, and the trimmed line   *)
(* handed on when c is a newline.                                          *)
(***************************************************************************)
\* Variant of framerFeed: the buffer is not emptied when a line is handed on.
framerFeed_keepOnNewline(buf, c) ==
    IF c = "\n" THEN [buf |-> buf, emit |-> TRUE, line |-> trim(buf)]
    ELSE IF c # "\r"
         THEN IF Len(buf) + 1 > LINE_CAP
              THEN [buf |-> <<>>, emit |-> FALSE, line |-> <<>>]
              ELSE [buf |-> Append(buf, c), emit |-> FALSE, line |-> <<>>]
    ELSE [buf |-> buf, emit |-> FALSE, line |-> <<>>]

\* c == '\n': the line is the buffer, trimmed, and the buffer is emptied;
\* c != '\r': c is appended and the buffer is emptied if its length is then
\* greater than LINE_CAP; a '\r' is dropped.
framerFeed(buf, c) ==
    IF c = "\n" THEN [buf |-> <<>>, emit |-> TRUE, line |-> trim(buf)]
    ELSE IF c # "\r"
         THEN IF Len(buf) + 1 > LINE_CAP
              THEN [buf |-> <<>>, emit |-> FALSE, line |-> <<>>]
              ELSE [buf |-> Append(buf, c), emit |-> FALSE, line |-> <<>>]
    ELSE [buf |-> buf, emit |-> FALSE, line |-> <<>>]


---------------------------------------------------------------------------
(***************************************************************************)
(* State                                                                   *)
(***************************************************************************)
\* The transport tasks: serial_task and wifi_task.  setup() starts one of them
\* (main.cpp:106-120, by USE_WIFI_TRANSPORT); main.cpp:16 also names a mode
\* "both", which is what Spec and SpecArt run.
Tasks == {"serial", "wifi"}

VARIABLES
    gSnapshotQueue,     \* the Mailbox: the items of the 1-slot queue
    gCommandQueue,      \* the Command Channel: the queued commands, oldest first
    gArtworkRgb565,     \* the raster, ARTWORK_RGB565_SIZE bytes
    gArtworkNew,        \* the freshness flag
    gLastArtworkHash,   \* hash of the last payload decoded successfully
    is_playing,         \* musicUi.is_playing
    started,            \* the transport tasks that setup() has started
    wifiState,          \* position of wifi_task: Disconnected, Connecting, Connected
    wifiPhase,          \* position of wifi_task inside its connected loop: check,
                        \* drain, read; untracked where a specification keeps the
                        \* task Connected and reading
    net,                \* environment: WiFi.status() == WL_CONNECTED (wifi), and
                        \* the TCP server accepts and keeps the connection (tcp)
    lineBuf,            \* gSerialLineBuf and wifi_task's lineBuf, by task
    wire,               \* bytes the host has sent that the task has not read yet
    pubs,               \* history: the publishes since the last successful take
    lastGoodB64,        \* history: the payload of the last successful decode
    last,               \* history: the step just taken and what it returned
    legacy,             \* history: the legacy artwork sequence received so far
    ord,                \* history: per transport, the lines the host has sent and
                        \* how many of their newlines the task has read
    artUi,              \* the consumer's position in ui_update, what it has shown,
                        \* and whether ui_update ran less than UPDATE_INTERVAL_MS ago
    frm                 \* history of each task's framer: the bytes since the last
                        \* newline, whether the buffer was reset since then, and
                        \* whether it was reset during the line before

vars == <<gSnapshotQueue, gCommandQueue, gArtworkRgb565, gArtworkNew, gLastArtworkHash,
          is_playing, started, artUi, ord, wifiState, wifiPhase, net, lineBuf, wire, pubs,
          lastGoodB64, last, legacy, frm>>

Art == [rgb |-> gArtworkRgb565, new |-> gArtworkNew, hash |-> gLastArtworkHash]

NoFrame == [raw |-> <<>>, overflowed |-> FALSE, prevOverflowed |-> FALSE]

NoLast ==
    [op |-> "none", task |-> "none", handled |-> FALSE, route |-> "none",
     err |-> FALSE, ret |-> FALSE, play |-> "none", msg |-> <<>>, dec |-> NoAttempt,
     pubsBefore |-> <<>>, again |-> FALSE, line |-> <<>>, frame |-> NoFrame,
     reset |-> FALSE, cmdsBefore |-> <<>>, waited |-> FALSE, port |-> "none"]

Step(op, t) == [NoLast EXCEPT !.op = op, !.task = t]

\* The WiFi link is up and the TCP server is reachable.
NetUp == [wifi |-> TRUE, tcp |-> TRUE]

\* No legacy artwork sequence is under way.
NoLegacy == [phase |-> "idle", hex |-> <<>>, toJson |-> FALSE]

\* The host has sent no line to the transport.
NoOrd == [sent |-> <<>>, read |-> 0]

\* The consumer is outside ui_update, has handed no image to the display, and
\* ui_update did not run within the last UPDATE_INTERVAL_MS.
NoArtUi == [pc |-> "idle", msg |-> <<>>, displayed |-> <<>>, recent |-> FALSE]

InitCommon ==
    /\ gSnapshotQueue = <<>>
    /\ gCommandQueue = <<>>
    /\ gArtworkRgb565 = [k \in 1..ARTWORK_RGB565_SIZE |-> 0]
    /\ gArtworkNew = FALSE
    /\ gLastArtworkHash = <<0, 0>>
    /\ is_playing = FALSE
    /\ lineBuf = [t \in Tasks |-> <<>>]
    /\ wire = [t \in Tasks |-> <<>>]
    /\ pubs = <<>>
    /\ lastGoodB64 = <<>>
    /\ last = NoLast
    /\ legacy = NoLegacy
    /\ frm = [t \in Tasks |-> NoFrame]
    /\ artUi = NoArtUi
    /\ ord = [t \in Tasks |-> NoOrd]

---------------------------------------------------------------------------
(***************************************************************************)
(* The handling of one framed line (data_model.cpp:297-304, :417-424).     *)
(* `line` is the trimmed line; `f` is the framer history of the line.      *)
(***************************************************************************)
\* The last two entries of the publishes since the last take.
KeepTwo(s) == IF Len(s) > 2 THEN SubSeq(s, Len(s) - 1, Len(s)) ELSE s

\* ui_set_play_state(bool) as parse_json_into_msg calls it: musicUi.is_playing
\* afterwards.
ui_set_play_state(call, playing) ==
    IF call = "play" THEN TRUE ELSE IF call = "pause" THEN FALSE ELSE playing

\* Variant of lineLongEnough: a line of MIN_LINE_LEN characters is handled.
lineLongEnough_atMinimum(line) == Len(line) >= MIN_LINE_LEN

\* if (line.length() > 5)
lineLongEnough(line) == Len(line) > MIN_LINE_LEN

HandleLine(t, line, f) ==
    IF lineLongEnough(line)
    THEN \E g \in StackGarbage :
         \E r \in {parse_json_into_msg(line, g, Art)} :
           /\ gArtworkRgb565' = r.art.rgb
           /\ gArtworkNew' = r.art.new
           /\ gLastArtworkHash' = r.art.hash
           /\ is_playing' = ui_set_play_state(r.play, is_playing)
           /\ gSnapshotQueue' = IF r.ret THEN xQueueOverwrite(gSnapshotQueue, r.msg)
                                ELSE gSnapshotQueue
           /\ pubs' = IF r.ret
                      THEN KeepTwo(Append(pubs, [task |-> t, msg |-> r.msg]))
                      ELSE pubs
           /\ lastGoodB64' = IF r.dec.tried /\ r.dec.ret THEN r.dec.b64
                             ELSE lastGoodB64
           /\ last' = [Step("line", t) EXCEPT
                         !.handled = TRUE, !.route = r.route, !.err = r.err,
                         !.ret = r.ret, !.play = r.play,
                         !.msg = IF r.ret THEN <<r.msg>> ELSE <<>>,
                         !.dec = r.dec, !.line = line, !.frame = f]
    ELSE /\ UNCHANGED <<gArtworkRgb565, gArtworkNew, gLastArtworkHash, is_playing,
                        gSnapshotQueue, pubs, lastGoodB64>>
         /\ last' = [Step("line", t) EXCEPT !.line = line, !.frame = f]

CanRead(t) == t \in started /\ (t = "wifi" => wifiState = "Connected")

---------------------------------------------------------------------------
(***************************************************************************)
(* Actions at the granularity of framed lines.                             *)
(***************************************************************************)
\* The legacy artwork sequence as the host sent it, after the line `line`:
\* ART_START opens a sequence, ART_CHUNK:<hex> lines add their hex digits (up to
\* a full raster), ART_END closes it.  toJson records whether a line of the
\* sequence was handed to deserializeJson by the snapshot branch.
IsChunkLine(line) ==
    /\ Len(line) > Len(K_ART_CHUNK)
    /\ SubSeq(line, 1, Len(K_ART_CHUNK)) = K_ART_CHUNK

LegacyTrack(l, line, json) ==
    IF line = L_ART_START THEN [phase |-> "open", hex |-> <<>>, toJson |-> json]
    ELSE IF l.phase = "open" /\ line = L_ART_END
    THEN [l EXCEPT !.phase = "done", !.toJson = @ \/ json]
    ELSE IF l.phase = "open" /\ IsChunkLine(line)
    THEN IF Len(l.hex) + Len(line) - Len(K_ART_CHUNK) <= 2 * ARTWORK_RGB565_SIZE
         THEN [l EXCEPT !.hex = @ \o SubSeq(line, Len(K_ART_CHUNK) + 1, Len(line)),
                        !.toJson = @ \/ json]
         ELSE NoLegacy
    ELSE IF l.phase = "done" THEN NoLegacy
    ELSE l

\* A transport task has read the characters of `raw` and then a newline.
TaskLine(t, raw) ==
    /\ CanRead(t)
    /\ HandleLine(t, trim(raw), NoFrame)
    /\ legacy' = LegacyTrack(legacy, trim(raw), last'.route = "snapshot")
    /\ UNCHANGED <<gCommandQueue, started, artUi, ord, wifiState, wifiPhase, net, lineBuf,
                   wire, frm>>

\* loop(): data_model_try_dequeue, then ui_update on success.  ui_update returns
\* at once when called within UPDATE_INTERVAL_MS of the last update (throttled);
\* otherwise it shows new artwork (update_artwork clears the flag) and sets the
\* play state from a message that has media.
Loop(throttled) ==
    LET r == data_model_try_dequeue(gSnapshotQueue)
        shown == r.ok /\ ~throttled
    IN  /\ gSnapshotQueue' = r.q
        /\ gArtworkNew' = IF shown THEN FALSE ELSE gArtworkNew
        /\ is_playing' = IF shown /\ r.item[1].hasMedia THEN r.item[1].isPlaying
                         ELSE is_playing
        /\ pubs' = IF r.ok THEN <<>> ELSE pubs
        /\ last' = [Step("take", "loop") EXCEPT
                      !.ret = r.ok, !.msg = r.item, !.pubsBefore = pubs,
                      !.again = (last.op = "take" /\ (last.ret \/ last.again))]
        /\ UNCHANGED <<gArtworkRgb565, gLastArtworkHash, started, artUi, ord, wifiState,
                       wifiPhase, net, lineBuf, wire, lastGoodB64, legacy, frm, gCommandQueue>>

\* send_command(cmd) for a non-null cmd: the command goes out on Serial, and a
\* copy is queued for wifi_task with no wait.
send_command(cmd) ==
    \E r \in {xQueueSend(gCommandQueue, strncpyCmd(cmd), 0)} :
      /\ gCommandQueue' = r.q
      /\ last' = [Step("command", "loop") EXCEPT
                    !.ret = r.ret, !.line = withNewline(cmd), !.port = "Serial",
                    !.cmdsBefore = gCommandQueue, !.waited = r.waited]
      /\ UNCHANGED <<gSnapshotQueue, gArtworkRgb565, gArtworkNew, gLastArtworkHash,
                     is_playing, started, artUi, ord, wifiState, wifiPhase, net,
                     lineBuf, wire, pubs, lastGoodB64, legacy, frm>>

\* wifi_task, connected: one turn of "while (xQueueReceive(gCommandQueue, cmdBuf, 0)
\* == pdTRUE)" that receives a command and prints it to the client.  The print
\* reaches the socket while the connection stands (err records that it did not).
WifiSendQueued ==
    /\ CanRead("wifi")
    /\ gCommandQueue # <<>>
    /\ \E r \in {xQueueReceive(gCommandQueue)} :
         /\ gCommandQueue' = r.q
         /\ last' = [Step("cmdout", "wifi") EXCEPT
                       !.ret = r.ok, !.port = "client", !.err = ~net.tcp,
                       !.line = IF Len(r.item[1]) > 0 /\ net.tcp
                                THEN withNewline(r.item[1]) ELSE <<>>,
                       !.cmdsBefore = gCommandQueue]
    /\ UNCHANGED <<gSnapshotQueue, gArtworkRgb565, gArtworkNew, gLastArtworkHash,
                   is_playing, started, artUi, ord, wifiState, wifiPhase, net, lineBuf,
                   wire, pubs, lastGoodB64, legacy, frm>>

---------------------------------------------------------------------------
(***************************************************************************)
(* wifi_task as a state machine (data_model.cpp:369-439).  Disconnected is *)
(* the top of the for loop (after a back-off delay), Connecting the call   *)
(* of client.connect, Connected the inner while loop, whose iteration      *)
(* checks the connection, drains the Command Channel, reads what is        *)
(* available and delays 5 ms.                                              *)
(***************************************************************************)
\* The steps of wifi_task leave the Mailbox, the Artwork Buffer, the Command
\* Channel and the UI alone unless they say otherwise.
WifiFrame ==
    UNCHANGED <<gSnapshotQueue, gCommandQueue, gArtworkRgb565, gArtworkNew,
                gLastArtworkHash, is_playing, started, artUi, ord, net, wire, pubs,
                lastGoodB64, legacy>>

\* if (WiFi.status() != WL_CONNECTED) { vTaskDelay(2000); continue; }
WifiCheckLink ==
    /\ "wifi" \in started
    /\ wifiState = "Disconnected"
    /\ wifiState' = IF net.wifi THEN "Connecting" ELSE "Disconnected"
    /\ last' = [Step("link", "wifi") EXCEPT !.ret = net.wifi]
    /\ UNCHANGED <<wifiPhase, lineBuf, frm>>
    /\ WifiFrame

\* Variant of connectLineBuf: the buffer is kept across connections.
connectLineBuf_keep(buf) == buf

\* lineBuf = "" after a successful connect.
connectLineBuf(buf) == <<>>

\* Variant of WifiConnect that gives up after a failed connect.
WifiConnect_giveUp ==
    /\ "wifi" \in started
    /\ wifiState = "Connecting"
    /\ wifiState' = IF net.tcp THEN "Connected" ELSE "Failed"
    /\ wifiPhase' = "check"
    /\ lineBuf' = IF net.tcp THEN [lineBuf EXCEPT !["wifi"] = connectLineBuf(@)]
                  ELSE lineBuf
    /\ frm' = IF net.tcp THEN [frm EXCEPT !["wifi"] = NoFrame] ELSE frm
    /\ last' = [Step("connect", "wifi") EXCEPT !.ret = net.tcp]
    /\ WifiFrame

\* Variant of WifiConnect that empties the Command Channel on a successful
\* connect.
WifiConnect_flushQueue ==
    /\ "wifi" \in started
    /\ wifiState = "Connecting"
    /\ wifiState' = IF net.tcp THEN "Connected" ELSE "Disconnected"
    /\ wifiPhase' = "check"
    /\ lineBuf' = IF net.tcp THEN [lineBuf EXCEPT !["wifi"] = connectLineBuf(@)]
                  ELSE lineBuf
    /\ frm' = IF net.tcp THEN [frm EXCEPT !["wifi"] = NoFrame] ELSE frm
    /\ gCommandQueue' = IF net.tcp THEN <<>> ELSE gCommandQueue
    /\ last' = [Step("connect", "wifi") EXCEPT !.ret = net.tcp]
    /\ UNCHANGED <<gSnapshotQueue, gArtworkRgb565, gArtworkNew, gLastArtworkHash,
                   is_playing, started, artUi, ord, net, wire, pubs, lastGoodB64, legacy>>

\* if (!client.connect(host, port)) { vTaskDelay(3000); continue; }
\* client.setTimeout(1); client.setNoDelay(true); lineBuf = "";
WifiConnect ==
    /\ "wifi" \in started
    /\ wifiState = "Connecting"
    /\ wifiState' = IF net.tcp THEN "Connected" ELSE "Disconnected"
    /\ wifiPhase' = "check"
    /\ lineBuf' = IF net.tcp THEN [lineBuf EXCEPT !["wifi"] = connectLineBuf(@)]
                  ELSE lineBuf
    /\ frm' = IF net.tcp THEN [frm EXCEPT !["wifi"] = NoFrame] ELSE frm
    /\ last' = [Step("connect", "wifi") EXCEPT !.ret = net.tcp]
    /\ WifiFrame

\* Variant of WifiLoopCheck that empties the Mailbox when the connection is
\* found lost.
WifiLoopCheck_flush ==
    /\ "wifi" \in started
    /\ wifiState = "Connected" /\ wifiPhase = "check"
    /\ IF net.tcp /\ net.wifi
       THEN /\ wifiPhase' = "drain"
            /\ UNCHANGED <<wifiState, gSnapshotQueue>>
       ELSE /\ wifiState' = "Disconnected"
            /\ gSnapshotQueue' = <<>>
            /\ UNCHANGED wifiPhase
    /\ last' = [Step("loopcheck", "wifi") EXCEPT !.ret = (net.tcp /\ net.wifi)]
    /\ UNCHANGED <<lineBuf, frm, gCommandQueue, gArtworkRgb565, gArtworkNew,
                   gLastArtworkHash, is_playing, started, artUi, ord, net, wire, pubs,
                   lastGoodB64, legacy>>

\* while (client.connected() && WiFi.status() == WL_CONNECTED) { ... }
\* client.stop(); vTaskDelay(2000);
WifiLoopCheck ==
    /\ "wifi" \in started
    /\ wifiState = "Connected" /\ wifiPhase = "check"
    /\ IF net.tcp /\ net.wifi
       THEN /\ wifiPhase' = "drain"
            /\ UNCHANGED wifiState
       ELSE /\ wifiState' = "Disconnected"
            /\ UNCHANGED wifiPhase
    /\ last' = [Step("loopcheck", "wifi") EXCEPT !.ret = (net.tcp /\ net.wifi)]
    /\ UNCHANGED <<lineBuf, frm>>
    /\ WifiFrame

\* The drain loop: a command is received and printed, or the queue is found
\* empty and the task goes on to read.
WifiDrain ==
    /\ wifiPhase = "drain"
    /\ IF gCommandQueue # <<>>
       THEN WifiSendQueued
       ELSE /\ CanRead("wifi")
            /\ wifiPhase' = "read"
            /\ last' = [Step("drained", "wifi") EXCEPT !.cmdsBefore = gCommandQueue]
            /\ UNCHANGED <<wifiState, lineBuf, frm>>
            /\ WifiFrame

\* The read loop at the granularity of lines: the characters of `raw` and a
\* newline were available.
WifiRead(raw) ==
    /\ wifiPhase = "read"
    /\ TaskLine("wifi", raw)

\* client.available() is 0: vTaskDelay(5), and the next iteration.
WifiReadDone ==
    /\ CanRead("wifi")
    /\ wifiPhase = "read"
    /\ wifiPhase' = "check"
    /\ last' = Step("delay", "wifi")
    /\ UNCHANGED <<wifiState, lineBuf, frm>>
    /\ WifiFrame

\* The environment: the WiFi link or the TCP server comes or goes.
NetChange ==
    /\ \E n \in [wifi : BOOLEAN, tcp : BOOLEAN] : n # net /\ net' = n
    /\ UNCHANGED <<gSnapshotQueue, gCommandQueue, gArtworkRgb565, gArtworkNew,
                   gLastArtworkHash, is_playing, started, artUi, ord, wifiState,
                   wifiPhase, lineBuf, wire, pubs, lastGoodB64, last, legacy, frm>>

---------------------------------------------------------------------------
(***************************************************************************)
(* Spec: both transport tasks, the Mailbox and the consumer loop, for the  *)
(* lines that carry no artwork.  A line reaches wifi_task only while it is *)
(* Connected, and the connection does not matter otherwise at this         *)
(* granularity: wifi_task stays Connected here.                            *)
(***************************************************************************)
\* The lines the host sends (without their newline).
MailboxLines ==
    {L_snapA, L_snapB, L_truncSnap, L_badSnap, L_ackPlay, L_ackPause, L_ackStop,
     L_braces, <<>>}

Init ==
    /\ InitCommon
    /\ started = Tasks
    /\ wifiState = "Connected"
    /\ wifiPhase = "untracked"
    /\ net = NetUp

Next ==
    \/ \E t \in Tasks : \E raw \in MailboxLines : TaskLine(t, raw)
    \/ \E throttled \in BOOLEAN : Loop(throttled)

Spec == Init /\ [][Next]_vars

---------------------------------------------------------------------------
(***************************************************************************)
(* Mailbox properties (Spec)                                               *)
(***************************************************************************)
TookAfterTwo == last.op = "take" /\ Len(last.pubsBefore) >= 2

\* C1: latest-wins.  When snapshots A then B were published with no take in
\* between, by one task or by the two tasks, the next data_model_try_dequeue
\* returns B.
C1_LatestWins ==
    TookAfterTwo => (last.ret /\ last.msg = <<last.pubsBefore[2].msg>>)

\* A take that followed a publish by serial_task and then a publish of a different
\* snapshot by wifi_task.
C1_Witness ==
    /\ TookAfterTwo
    /\ last.pubsBefore[1].task = "serial"
    /\ last.pubsBefore[2].task = "wifi"
    /\ last.pubsBefore[1].msg # last.pubsBefore[2].msg
    /\ last.ret

\* C2: data_model_try_dequeue returns the pending snapshot and empties the slot,
\* or returns false on an empty slot; after a successful take every further take
\* returns false until the next publish (each publish is delivered at most once).
C2_TakeEmptiesSlot ==
    last.op = "take" =>
        /\ gSnapshotQueue = <<>>
        /\ last.ret <=> (last.pubsBefore # <<>>)
        /\ last.ret => last.msg = <<last.pubsBefore[Len(last.pubsBefore)].msg>>
        /\ ~last.ret => last.msg = <<>>

\* A take that returned false, right after a successful take.
C2_Witness == last.op = "take" /\ last.again /\ ~last.ret

\* C3: the Mailbox never holds more than one snapshot, and a publish always
\* succeeds: after it the slot holds the snapshot published, whatever it held.
C3_OneSlotOverwrite ==
    /\ Len(gSnapshotQueue) <= SNAPSHOT_QUEUE_LENGTH
    /\ (last.op = "line" /\ last.ret) => gSnapshotQueue = last.msg

\* A publish into a slot that held a different, unread snapshot.
C3_Witness ==
    /\ last.op = "line"
    /\ last.ret
    /\ Len(pubs) = 2
    /\ pubs[1].msg # pubs[2].msg
    /\ gSnapshotQueue = <<pubs[2].msg>>

\* C4: a snapshot returned by data_model_try_dequeue is equal, field for field,
\* to a snapshot that one publish call passed in, under every interleaving of
\* the tasks' publishes and the consumer's takes.
C4_NoTornSnapshot ==
    (last.op = "take" /\ last.ret) =>
        \E i \in 1..Len(last.pubsBefore) : last.msg[1] = last.pubsBefore[i].msg

\* A take after two publishes by different tasks of snapshots that differ in
\* several fields.
C4_Witness ==
    /\ TookAfterTwo
    /\ last.ret
    /\ last.pubsBefore[1].task # last.pubsBefore[2].task
    /\ last.pubsBefore[1].msg.cpu # last.pubsBefore[2].msg.cpu
    /\ last.pubsBefore[1].msg.mem # last.pubsBefore[2].msg.mem
    /\ last.pubsBefore[1].msg.hasMedia # last.pubsBefore[2].msg.hasMedia

SnapshotLineFailed == last.op = "line" /\ last.route = "snapshot" /\ last.err

\* C5: a line routed to the Snapshot Decoder that deserializeJson rejects
\* (truncated, or not valid JSON) makes parse_json_into_msg return false, and
\* the Mailbox is the same after the line as before it.
C5_BadLineKeepsMailbox ==
    [][SnapshotLineFailed' => (~last'.ret /\ gSnapshotQueue' = gSnapshotQueue)]_vars

\* A rejected snapshot line, with a snapshot pending in the Mailbox.
C5_Witness == SnapshotLineFailed /\ ~last.ret /\ gSnapshotQueue # <<>>

AckLine(l) == last.op = "line" /\ last.line = l

\* C12: the line {"ack":"play"} publishes nothing, leaves the Mailbox as it
\* was and sets the playback state to playing; {"ack":"pause"} likewise sets it
\* to not playing; an ack with another value ("stop") changes neither the
\* playback state nor the Mailbox.
C12_AckSetsPlayState ==
    [][/\ AckLine(L_ackPlay)' =>
            (~last'.ret /\ gSnapshotQueue' = gSnapshotQueue /\ is_playing' = TRUE)
       /\ AckLine(L_ackPause)' =>
            (~last'.ret /\ gSnapshotQueue' = gSnapshotQueue /\ is_playing' = FALSE)
       /\ AckLine(L_ackStop)' =>
            (~last'.ret /\ gSnapshotQueue' = gSnapshotQueue /\ is_playing' = is_playing)
      ]_vars

\* {"ack":"stop"} was handled while the state was playing and a snapshot was
\* pending.
C12_Witness ==
    /\ AckLine(L_ackStop)
    /\ last.route = "ack"
    /\ is_playing
    /\ gSnapshotQueue # <<>>

---------------------------------------------------------------------------
(***************************************************************************)
(* SpecArt: the Artwork Buffer.  The transport tasks receive standalone    *)
(* artwork messages (full raster, other raster, too short, too long, bad   *)
(* character, below the standalone minimum, truncated line) and snapshots  *)
(* with and without an artwork field; the consumer loop takes snapshots    *)
(* and shows new artwork.                                                  *)
(***************************************************************************)
ArtLines ==
    {StandaloneArt(StandalonePayloads[i]) : i \in 1..Len(StandalonePayloads)}
    \cup {L_truncArt, L_headlessArt, L_snapArtShort, L_snapA}

InitArt ==
    /\ InitCommon
    /\ started = Tasks
    /\ wifiState = "Connected"
    /\ wifiPhase = "untracked"
    /\ net = NetUp

NextArt ==
    \/ \E t \in Tasks : \E raw \in ArtLines : TaskLine(t, raw)
    \/ \E throttled \in BOOLEAN : Loop(throttled)

SpecArt == InitArt /\ [][NextArt]_vars

---------------------------------------------------------------------------
(***************************************************************************)
(* Artwork Buffer properties (SpecArt)                                     *)
(***************************************************************************)
\* The step just taken was an artwork attempt (a call of decodeArtworkB64).
Attempted == last.op = "line" /\ last.dec.tried

\* C6: an artwork attempt whose payload is, character for character, the payload
\* of the last successful decode changes no byte of the raster and leaves the
\* freshness flag as it was (set or cleared), and the attempt returns false.
C6_ResubmitSameArtwork ==
    [][(Attempted' /\ lastGoodB64 # <<>> /\ last'.dec.b64 = lastGoodB64)
         => /\ gArtworkRgb565' = gArtworkRgb565
            /\ gArtworkNew' = gArtworkNew
            /\ ~last'.dec.ret]_vars

\* The payload of the last successful decode was submitted again after the
\* consumer had shown it and cleared the flag; the flag is still cleared.
C6_Witness ==
    /\ Attempted
    /\ ~last.dec.ret
    /\ last.dec.b64 = lastGoodB64
    /\ lastGoodB64 = P_img2
    /\ ~gArtworkNew
    /\ gArtworkRgb565 = <<9, 8, 7, 6, 5>>

\* The payloads that are valid base64 and decode to a byte count other than
\* the raster size.
WrongLengthPayloads ==
    {StandalonePayloads[i] : i \in
       {k \in 1..Len(StandalonePayloads) :
          /\ ~B64Invalid(StandalonePayloads[k])
          /\ B64OutLen(StandalonePayloads[k]) # ARTWORK_RGB565_SIZE}}

WrongLengthStandalone ==
    /\ last.op = "line"
    /\ last.route = "artwork"
    /\ \E p \in WrongLengthPayloads : last.line = StandaloneArt(p)

\* C7: a standalone artwork message whose payload is valid base64 of a wrong
\* decoded length is rejected: the freshness flag and the stored hash are the
\* same after the line as before it, and nothing is published.
C7_WrongLengthRejected ==
    [][WrongLengthStandalone'
         => /\ gArtworkNew' = gArtworkNew
            /\ gLastArtworkHash' = gLastArtworkHash
            /\ ~last'.ret
            /\ (last'.dec.tried => ~last'.dec.ret)]_vars

\* A wrong-length standalone payload went through decodeArtworkB64 past the hash
\* comparison, with the flag cleared and the hash of an earlier image stored.
C7_Witness ==
    /\ WrongLengthStandalone
    /\ last.dec.tried
    /\ quickHash(last.dec.b64, Len(last.dec.b64)) # gLastArtworkHash
    /\ lastGoodB64 # <<>>
    /\ ~gArtworkNew

\* C8: an artwork attempt that fails (decodeArtworkB64 returns false: a bad
\* character, or a decoded size different from the raster size) leaves every
\* byte of the raster and the stored hash unchanged.
C8_FailedAttemptKeepsRaster ==
    [][(Attempted' /\ ~last'.dec.ret)
         => /\ gArtworkRgb565' = gArtworkRgb565
            /\ gLastArtworkHash' = gLastArtworkHash]_vars

\* The line just handled contains artwork_b64 and does not contain cpu_percent.
ArtworkKeyLine ==
    /\ last.op = "line"
    /\ last.handled
    /\ indexOf(last.line, K_artwork_b64) >= 0
    /\ indexOf(last.line, K_cpu_percent) < 0

\* C13: a line that contains artwork_b64 and lacks cpu_percent publishes no
\* snapshot, whether its artwork decode succeeds, is skipped, fails or is not
\* attempted: parse_json_into_msg returns false and the Mailbox is unchanged.
C13_StandaloneNeverPublishes ==
    [][ArtworkKeyLine' => (~last'.ret /\ gSnapshotQueue' = gSnapshotQueue)]_vars

\* A standalone artwork was decoded successfully while a snapshot was pending.
C13_Witness ==
    /\ ArtworkKeyLine
    /\ last.route = "artwork"
    /\ last.dec.tried
    /\ last.dec.ret
    /\ gSnapshotQueue # <<>>

---------------------------------------------------------------------------
(***************************************************************************)
(* SpecFramer: the read loops of serial_task and wifi_task, one character  *)
(* at a time, in a build that starts one of the two.  The host sends one   *)
(* message after the other: some padding (blanks or junk), a body and a    *)
(* line end.                                                               *)
(***************************************************************************)
RECURSIVE Pad(_, _)
Pad(c, k) == IF k <= 0 THEN <<>> ELSE <<c>> \o Pad(c, k - 1)

\* Lengths of blank padding: none; one; a line that fills the buffer exactly; a
\* line one character too long; padding that alone exceeds the cap, by one
\* character and by PadExtra characters.
PadLens ==
    {0, 1, LINE_CAP - Len(L_snapA), LINE_CAP - Len(L_snapA) + 1,
     LINE_CAP + 1, LINE_CAP + PadExtra}

\* Lengths of junk that exceeds the cap.
JunkLens == {LINE_CAP + 1, LINE_CAP + PadExtra}

FramerBodies == {L_snapA, L_ackPlay, StandaloneArt(P_img1)}

LineEnds == {<<"\n">>, <<"\r", "\n">>}

\* The messages the host sends: blanks or junk, a body, a line end.
FramerMessages ==
    {Pad(" ", k) \o body \o eol : k \in PadLens, body \in FramerBodies, eol \in LineEnds}
    \cup {Pad("x", k) \o body \o <<"\n">> : k \in JunkLens, body \in FramerBodies}

\* The host writes a message to the transport that task t reads.
HostSend(t, bytes) ==
    /\ t \in started
    /\ wire[t] = <<>>
    /\ wire' = [wire EXCEPT ![t] = bytes]
    /\ last' = Step("send", t)
    /\ UNCHANGED <<gSnapshotQueue, gArtworkRgb565, gArtworkNew, gLastArtworkHash,
                   is_playing, started, artUi, ord, wifiState, wifiPhase, net,
                   lineBuf, pubs, lastGoodB64, legacy, frm, gCommandQueue>>

\* Variant of BufOf: the two tasks accumulate in one buffer.
BufOf_shared(t) == "serial"

\* The buffer a task accumulates in: serial_task in gSerialLineBuf, wifi_task
\* in its local lineBuf.
BufOf(t) == t

\* One iteration of "while (available() > 0)": read a character, frame it, and
\* handle the line when the character is a newline.
ReadByte(t) ==
    /\ CanRead(t)
    /\ wire[t] # <<>>
    /\ \E f \in {framerFeed(lineBuf[BufOf(t)], Head(wire[t]))} :
         LET c == Head(wire[t])
             resetNow == ~f.emit /\ c # "\r" /\ f.buf = <<>>
         IN  /\ wire' = [wire EXCEPT ![t] = Tail(wire[t])]
             /\ lineBuf' = [lineBuf EXCEPT ![BufOf(t)] = f.buf]
             /\ IF f.emit
                THEN /\ HandleLine(t, f.line, frm[t])
                     /\ frm' = [frm EXCEPT ![t] =
                                  [NoFrame EXCEPT !.prevOverflowed = frm[t].overflowed]]
                ELSE /\ frm' = [frm EXCEPT ![t] =
                                  [@ EXCEPT !.raw = Append(@, c),
                                            !.overflowed = @ \/ resetNow]]
                     /\ last' = [Step("byte", t) EXCEPT !.reset = resetNow]
                     /\ UNCHANGED <<gSnapshotQueue, gArtworkRgb565, gArtworkNew,
                                    gLastArtworkHash, is_playing, pubs, lastGoodB64>>
             /\ UNCHANGED <<started, artUi, wifiState, wifiPhase, net, legacy,
                            gCommandQueue>>

InitFramer ==
    /\ InitCommon
    /\ \E t \in Tasks : started = {t}
    /\ wifiState = "Connected"
    /\ wifiPhase = "untracked"
    /\ net = NetUp

NextFramer ==
    \/ \E t \in Tasks : \E bytes \in FramerMessages : HostSend(t, bytes)
    \/ \E t \in Tasks : ReadByte(t) /\ UNCHANGED ord

SpecFramer == InitFramer /\ [][NextFramer]_vars

---------------------------------------------------------------------------
(***************************************************************************)
(* Line Framer properties (SpecFramer)                                     *)
(***************************************************************************)
NotCR(c) == c # "\r"

\* What a framer with an empty buffer hands on for the characters raw and a
\* newline, when raw fits in the buffer.
FreshLine(raw) == trim(SelectSeq(raw, NotCR))

\* A line was handed on at a newline, no reset happened while it accumulated, and
\* the buffer was reset while the line before it accumulated.
LineAfterOverflow ==
    /\ last.op = "line"
    /\ last.frame.prevOverflowed
    /\ ~last.frame.overflowed

\* C9: when the buffer exceeds the cap it is reset to empty; and a line that
\* arrives after the newline that follows is handed on as the trimmed characters
\* since that newline, as by a framer with an empty buffer, is handled iff it is
\* longer than MIN_LINE_LEN, and gets the result of parse_json_into_msg on it.
C9_FramerRecovers ==
    /\ (last.op = "byte" /\ last.reset) => lineBuf[last.task] = <<>>
    /\ LineAfterOverflow =>
         /\ last.line = FreshLine(last.frame.raw)
         /\ lineBuf[last.task] = <<>>
         /\ last.handled = (Len(FreshLine(last.frame.raw)) > MIN_LINE_LEN)
         /\ last.handled =>
              \E g \in StackGarbage :
              \E r \in {parse_json_into_msg(FreshLine(last.frame.raw), g, Art)} :
                /\ last.ret = r.ret
                /\ last.route = r.route
                /\ last.play = r.play
                /\ last.dec.tried = r.dec.tried
                /\ last.ret => last.msg = <<r.msg>>

\* A snapshot line, padded with a blank and ended by CR LF, was published right
\* after a line that had overflowed the buffer.
C9_Witness ==
    /\ LineAfterOverflow
    /\ last.ret
    /\ last.line = L_snapA
    /\ Len(last.frame.raw) = Len(L_snapA) + 2
    /\ gSnapshotQueue # <<>>

\* C10: at the newline that ends a line during which the buffer was reset,
\* nothing is produced: no snapshot is published, no artwork decode is
\* attempted and no ack is applied.
C10_OverlongLineLost ==
    (last.op = "line" /\ last.frame.overflowed)
        => (~last.ret /\ ~last.dec.tried /\ last.play = "none")

---------------------------------------------------------------------------
(***************************************************************************)
(* SpecLegacy: the transport tasks receive the lines of the legacy artwork *)
(* sequence (the hex digits in one chunk or in two) and a snapshot.        *)
(***************************************************************************)
LegacyLines ==
    {L_ART_START, K_ART_CHUNK \o H_all, K_ART_CHUNK \o H_head, K_ART_CHUNK \o H_tail,
     L_ART_END, L_snapA}

InitLegacy ==
    /\ InitCommon
    /\ started = Tasks
    /\ wifiState = "Connected"
    /\ wifiPhase = "untracked"
    /\ net = NetUp

NextLegacy ==
    \/ \E t \in Tasks : \E raw \in LegacyLines : TaskLine(t, raw)
    \/ \E throttled \in BOOLEAN : Loop(throttled)

SpecLegacy == InitLegacy /\ [][NextLegacy]_vars

---------------------------------------------------------------------------
(***************************************************************************)
(* Legacy artwork properties (SpecLegacy)                                  *)
(***************************************************************************)
HexDigits ==
    <<"0", "1", "2", "3", "4", "5", "6", "7", "8", "9", "A", "B", "C", "D", "E", "F">>

HexVal(c) == (CHOOSE i \in 1..Len(HexDigits) : HexDigits[i] = c) - 1

\* The bytes that a sequence of hex pairs stands for.
HexDecode(hex) ==
    [k \in 1..(Len(hex) \div 2) |-> 16 * HexVal(hex[2 * k - 1]) + HexVal(hex[2 * k])]

\* ART_END has just been handled, closing a sequence whose hex pairs fill the
\* raster exactly.
LegacySequenceDone ==
    /\ last.op = "line"
    /\ last.line = L_ART_END
    /\ legacy.phase = "done"
    /\ Len(legacy.hex) = 2 * ARTWORK_RGB565_SIZE

\* C11: after ART_START, ART_CHUNK lines whose hex pairs fill the raster exactly,
\* and ART_END, the raster equals the hex decode, the freshness flag is set, and
\* no line of the sequence was handed to the JSON snapshot decoder.
C11_LegacySequence ==
    LegacySequenceDone =>
        /\ gArtworkRgb565 = HexDecode(legacy.hex)
        /\ gArtworkNew
        /\ ~legacy.toJson

---------------------------------------------------------------------------
(***************************************************************************)
(* SpecDecode: the transport task of the build receives snapshot messages  *)
(* with process lists, media blocks, playlists and queues; the loop takes  *)
(* what was published.                                                     *)
(***************************************************************************)
DecodeLines ==
    {L_procRich, L_procMix, L_procSix, L_procLegacy, L_mediaFull, L_mediaBadSubs,
     L_mediaLong, L_snapA, L_braces}

InitDecode ==
    /\ InitCommon
    /\ \E t \in Tasks : started = {t}
    /\ wifiState = "Connected"
    /\ wifiPhase = "untracked"
    /\ net = NetUp

NextDecode ==
    \/ \E t \in Tasks : \E raw \in DecodeLines : TaskLine(t, raw)
    \/ \E throttled \in BOOLEAN : Loop(throttled)

SpecDecode == InitDecode /\ [][NextDecode]_vars

---------------------------------------------------------------------------
(***************************************************************************)
(* Decoding properties (SpecDecode)                                        *)
(***************************************************************************)
\* The transport task has just decoded and published the line l; Pub is the
\* Snapshot it published.
Decoded(l) == last.op = "line" /\ last.line = l /\ last.ret
Pub == last.msg[1]

\* C14: a snapshot with rich process objects decodes to cpu from
\* cpu_percent_total (cpu_percent when that is absent), mem from mem_percent,
\* one procs entry per object entry reading "<mem with one decimal>% <display_name,
\* or name without display_name>", the entry's pid in procPids and procCount the
\* number of object entries.  Floats are in tenths: 42.5 is 425.
C14_RichProcessDecode ==
    /\ (last.op = "line" /\ last.line \in {L_procRich, L_procMix, L_snapA}) => last.ret
    /\ Decoded(L_procRich) =>
          /\ Pub.cpu = 425 /\ Pub.mem = 100 /\ Pub.procCount = 1
          /\ Pub.procs[1] = <<"5", ".", "5", "%", " ", "A", "p", "p", " ", "A">>
          /\ Pub.procPids[1] = 100
    /\ Decoded(L_procMix) =>
          /\ Pub.cpu = 30 /\ Pub.mem = 0 /\ Pub.gpu = 5 /\ Pub.procCount = 2
          /\ Pub.procs[1] = <<"1", "2", ".", "0", "%", " ", "n">>
          /\ Pub.procs[2] = <<"0", ".", "5", "%", " ", "D">>
          /\ Pub.procPids[1] = 2 /\ Pub.procPids[2] = 0
    /\ Decoded(L_snapA) => Pub.cpu = 50 /\ Pub.procCount = 0

\* The spec's example was decoded and published.
C14_Witness == Decoded(L_procRich) /\ Pub.procCount = 1 /\ gSnapshotQueue # <<>>

\* The string fields of a Snapshot that parse_json_into_msg copies from the
\* message are within their capacity.
CopiedStringsBounded(msg) ==
    /\ \A i \in 1..MAX_PROCS : Len(msg.procs[i]) <= PROC_SIZE - 1
    /\ Len(msg.title) <= TITLE_SIZE - 1
    /\ Len(msg.artist) <= TITLE_SIZE - 1
    /\ Len(msg.album) <= TITLE_SIZE - 1
    /\ Len(msg.source) <= SOURCE_SIZE - 1
    /\ \A i \in 1..MAX_QUEUE_ITEMS :
          /\ Len(msg.queue[i].id) <= ID_SIZE - 1
          /\ Len(msg.queue[i].source) <= SOURCE_SIZE - 1
          /\ Len(msg.queue[i].name) <= MAX_STR_ESP - 1
          /\ Len(msg.queue[i].artist) <= MAX_STR_ESP - 1
          /\ Len(msg.queue[i].album) <= MAX_STR_ESP - 1
    /\ Len(msg.playlist.id) <= ID_SIZE - 1
    /\ Len(msg.playlist.name) <= MAX_STR_ESP - 1
    /\ Len(msg.playlist.snapshotId) <= SNAPSHOT_ID_SIZE - 1

\* C15: in every Snapshot a successful decode publishes, every string field
\* (procs entries, title, artist, album, source, trackUri, the strings of the
\* queue items and of the playlist) ends in a NUL within its capacity: its
\* length is at most the capacity minus 1.
C15_StringsTerminated ==
    (last.op = "line" /\ last.ret) =>
        (CopiedStringsBounded(Pub) /\ Len(Pub.trackUri) <= TRACKURI_SIZE - 1)

\* The part of C15 about the fields that are copied with safeStrCopy.
CopiedStringsTerminated == (last.op = "line" /\ last.ret) => CopiedStringsBounded(Pub)

\* A message whose strings are all longer than their fields was published.
LongPublished == Decoded(L_mediaLong) /\ Len(Pub.title) = TITLE_SIZE - 1

\* C16: the process list and the queue list saturate.  Every published Snapshot
\* has procCount <= 5 and queueLen <= MAX_QUEUE_ITEMS; six entries of proc_top5,
\* of cpu_top5_process or of media.queue decode successfully to the first five,
\* in input order, and the sixth is ignored.
C16_ListsSaturate ==
    /\ (last.op = "line" /\ last.ret) =>
          (Pub.procCount <= MAX_PROCS /\ Pub.queueLen <= MAX_QUEUE_ITEMS)
    /\ (last.op = "line" /\ last.line \in {L_procSix, L_procLegacy, L_mediaFull}) => last.ret
    /\ Decoded(L_procSix) =>
          /\ Pub.procCount = 5
          /\ Pub.procPids = <<1, 2, 3, 4, 5>>
          /\ Pub.procs = << <<"1", ".", "0", "%", " ", "p", "1">>,
                            <<"2", ".", "0", "%", " ", "p", "2">>,
                            <<"3", ".", "0", "%", " ", "p", "3">>,
                            <<"4", ".", "0", "%", " ", "p", "4">>,
                            <<"5", ".", "0", "%", " ", "p", "5">> >>
    /\ Decoded(L_procLegacy) =>
          /\ Pub.procCount = 5
          /\ Pub.procs = << <<"a", " ", "1", "%">>, <<"b">>, <<"3">>, <<"c">>, <<"d">> >>
          /\ Pub.procPids = <<0, 0, 0, 0, 0>>
    /\ Decoded(L_mediaFull) =>
          /\ Pub.hasQueue /\ Pub.queueLen = 5
          /\ [i \in 1..5 |-> Pub.queue[i].id] =
                << <<"q", "1">>, <<"q", "2">>, <<"q", "3">>, <<"q", "4">>, <<"q", "5">> >>

\* A message with more queue entries than slots was decoded and published with
\* a full queue list.
C16_Witness == Decoded(L_mediaFull) /\ Pub.queueLen = MAX_QUEUE_ITEMS /\ gSnapshotQueue # <<>>

\* The numeric and flag fields that parse_json_into_msg assigns, cpu apart, have
\* their defaults.
AssignedFieldsDefault(msg) ==
    /\ msg.mem = 0 /\ msg.gpu = 0 /\ msg.procCount = 0
    /\ msg.procPids = [i \in 1..MAX_PROCS |-> 0]
    /\ ~msg.hasMedia /\ msg.position = 0 /\ msg.duration = 0 /\ ~msg.isPlaying
    /\ ~msg.hasArtwork /\ ~msg.artworkUpdated
    /\ ~msg.hasQueue /\ msg.queueLen = 0 /\ ~msg.hasPlaylist
    /\ msg.queue = [i \in 1..MAX_QUEUE_ITEMS |-> ZeroQueueItem]
    /\ msg.playlist = ZeroPlaylist

\* C17: a message that has only the key cpu_percent, and one that has only
\* proc_top5, decode successfully, and every numeric or flag field of the
\* Snapshot published whose key is missing has its default (0 or false); none
\* carries an unset value.
C17_MissingKeysDefault ==
    /\ (last.op = "line" /\ last.line \in {L_snapA, L_procSix}) => last.ret
    /\ Decoded(L_snapA) =>
          /\ AssignedFieldsDefault(Pub)
          /\ ~Pub.shuffle /\ Pub.repeat = 0 /\ ~Pub.isLiked /\ ~Pub.hasDiscord
    /\ Decoded(L_procSix) =>
          /\ Pub.cpu = 0 /\ Pub.mem = 0 /\ Pub.gpu = 0 /\ ~Pub.hasMedia
          /\ ~Pub.shuffle /\ Pub.repeat = 0 /\ ~Pub.isLiked /\ ~Pub.hasDiscord

\* The part of C17 about the fields that are assigned.
AssignedDefaultsHold ==
    /\ (last.op = "line" /\ last.line \in {L_snapA, L_procSix}) => last.ret
    /\ Decoded(L_snapA) => AssignedFieldsDefault(Pub)
    /\ Decoded(L_procSix) => (Pub.cpu = 0 /\ Pub.mem = 0 /\ Pub.gpu = 0 /\ ~Pub.hasMedia)

\* C18: a snapshot message with a media object publishes a Snapshot whose media
\* block carries the message's title, artist, album, source, position, duration
\* and playing flag, and whose shuffle flag, repeat mode (0 off, 1 track,
\* 2 context), liked flag and track identifier equal the values sent
\* ("shuffle":true, "repeat":"track", "is_liked":true, "track_uri":"u1").
C18_MediaFieldsCarried ==
    /\ (last.op = "line" /\ last.line = L_mediaFull) => last.ret
    /\ Decoded(L_mediaFull) =>
          /\ Pub.hasMedia
          /\ Pub.title = <<"T">> /\ Pub.artist = <<"A">> /\ Pub.album = <<"B">>
          /\ Pub.source = S_spotify
          /\ Pub.position = 3 /\ Pub.duration = 9 /\ Pub.isPlaying
          /\ Pub.shuffle /\ Pub.repeat = 1 /\ Pub.isLiked
          /\ Pub.trackUri = <<"u", "1">>

\* The part of C18 about the fields that are read from the media object.
ReadMediaFieldsCarried ==
    /\ (last.op = "line" /\ last.line = L_mediaFull) => last.ret
    /\ Decoded(L_mediaFull) =>
          /\ Pub.hasMedia
          /\ Pub.title = <<"T">> /\ Pub.artist = <<"A">> /\ Pub.album = <<"B">>
          /\ Pub.source = S_spotify
          /\ Pub.position = 3 /\ Pub.duration = 9 /\ Pub.isPlaying

\* C19: a media object whose playlist is a number and whose queue is a string
\* still publishes a Snapshot with the other media fields populated,
\* hasPlaylist and hasQueue false and queueLen 0; a queue entry that is no
\* object is skipped without using a queue slot (the entry after it takes the
\* next slot).
C19_MalformedSubObjectsSkipped ==
    /\ (last.op = "line" /\ last.line = L_mediaBadSubs) => last.ret
    /\ Decoded(L_mediaBadSubs) =>
          /\ Pub.hasMedia /\ Pub.title = <<"T">> /\ Pub.artist = <<"A">>
          /\ ~Pub.hasPlaylist /\ Pub.playlist = ZeroPlaylist
          /\ ~Pub.hasQueue /\ Pub.queueLen = 0
          /\ Pub.queue = [i \in 1..MAX_QUEUE_ITEMS |-> ZeroQueueItem]
    /\ Decoded(L_mediaFull) =>
          /\ Pub.hasPlaylist /\ Pub.playlist.totalTracks = 12 /\ Pub.playlist.hasImage
          /\ Pub.queue[1].id = <<"q", "1">>
          /\ Pub.queue[2].id = <<"q", "2">> /\ Pub.queue[2].isLocal
          /\ Pub.queue[2].source = <<"l", "o", "c", "a", "l">>

\* The message with the malformed playlist and queue was published while a
\* message with a playlist and a queue was the one published before it.
C19_Witness ==
    /\ Decoded(L_mediaBadSubs) /\ Pub.hasMedia /\ ~Pub.hasQueue /\ ~Pub.hasPlaylist
    /\ Len(pubs) = 2 /\ pubs[1].msg.hasQueue /\ pubs[2].msg = Pub

---------------------------------------------------------------------------
(***************************************************************************)
(* SpecCmd: the UI sends commands (the next and previous buttons) while    *)
(* the transport task of the build runs; wifi_task, when it is the one     *)
(* started, takes the queued commands out.                                 *)
(***************************************************************************)
\* {"cmd":"next"}\n
CMD_next ==
    <<"{", "\"", "c", "m", "d", "\"", ":", "\"", "n", "e", "x", "t", "\"", "}", "\n">>

\* {"cmd":"previous"}\n
CMD_previous ==
    <<"{", "\"", "c", "m", "d", "\"", ":", "\"", "p", "r", "e", "v", "i", "o", "u", "s", "\"",
      "}", "\n">>

Commands == {CMD_next, CMD_previous}

InitCmd ==
    /\ InitCommon
    /\ \E t \in Tasks : started = {t}
    /\ wifiState = "Connected"
    /\ wifiPhase = "untracked"
    /\ net = NetUp

NextCmd ==
    \/ \E cmd \in Commands : send_command(cmd)
    \/ WifiSendQueued

SpecCmd == InitCmd /\ [][NextCmd]_vars

---------------------------------------------------------------------------
(***************************************************************************)
(* Command Channel properties (SpecCmd)                                    *)
(***************************************************************************)
\* send_command has just been called while the queue held 8 commands.
SentWhenFull == last.op = "command" /\ Len(last.cmdsBefore) = 8

\* C20: the Command Channel queue never holds more than 8 commands; a
\* send_command called while it holds 8 drops the new command, leaves the 8
\* queued commands and their order as they were, and no send_command waits.
C20_FullQueueDrops ==
    /\ Len(gCommandQueue) <= 8
    /\ SentWhenFull => (~last.ret /\ gCommandQueue = last.cmdsBefore)
    /\ last.op = "command" => ~last.waited

\* A command was sent while the queue held 8 commands, not all the same, other
\* than the command sent.
C20_Witness ==
    /\ SentWhenFull
    /\ last.line = CMD_next
    /\ last.cmdsBefore[1] = CMD_previous /\ last.cmdsBefore[8] = CMD_previous
    /\ last.cmdsBefore[2] = CMD_next

\* The transport that carries the data of the build: the one whose task setup()
\* started, and the port of that transport.
Authoritative == IF "wifi" \in started THEN "client" ELSE "Serial"

\* C21: every send_command call writes the command at once, with exactly one
\* newline at its end, on the transport that is authoritative, whether or not
\* the queue is full: on the TCP client when wifi_task carries the data.
C21_ImmediateOnAuthoritative ==
    last.op = "command" =>
        /\ last.line \in Commands
        /\ last.port = Authoritative

---------------------------------------------------------------------------
(***************************************************************************)
(* SpecWifi: the build that starts wifi_task.  The link and the server     *)
(* come and go; the UI sends commands (at most MaxQueued are waiting when  *)
(* it sends another); the host sends a snapshot and an artwork; the loop   *)
(* takes what was published.  SpecWifiLive has the scheduling of           *)
(* wifi_task: FreeRTOS runs the task again after every delay.              *)
(***************************************************************************)
MaxQueued == 2

\* {"cmd":"play"}, without the newline that the callers in ui.cpp append
CMD_bare ==
    <<"{", "\"", "c", "m", "d", "\"", ":", "\"", "p", "l", "a", "y", "\"", "}">>

WifiCommands == {CMD_next, CMD_bare}

WifiLines == {L_snapA, StandaloneArt(P_img1)}

InitWifi ==
    /\ InitCommon
    /\ started = {"wifi"}
    /\ wifiState = "Disconnected"
    /\ wifiPhase = "check"
    /\ net \in [wifi : BOOLEAN, tcp : BOOLEAN]

WifiTaskStep ==
    \/ WifiCheckLink
    \/ WifiConnect
    \/ WifiLoopCheck
    \/ WifiDrain
    \/ \E raw \in WifiLines : WifiRead(raw)
    \/ WifiReadDone

NextWifi ==
    \/ WifiTaskStep
    \/ NetChange
    \/ \E cmd \in WifiCommands : Len(gCommandQueue) < MaxQueued /\ send_command(cmd)
    \/ \E throttled \in BOOLEAN : Loop(throttled)

SpecWifi == InitWifi /\ [][NextWifi]_vars

\* SpecWifiLive: wifi_task under the scheduler, with one snapshot line and one
\* command as its traffic.
LiveTaskStep ==
    \/ WifiCheckLink
    \/ WifiConnect
    \/ WifiLoopCheck
    \/ WifiDrain
    \/ WifiRead(L_snapA)
    \/ WifiReadDone

NextWifiLive ==
    \/ LiveTaskStep
    \/ NetChange
    \/ Len(gCommandQueue) < MaxQueued /\ send_command(CMD_next)

SpecWifiLive == InitWifi /\ [][NextWifiLive]_vars /\ WF_vars(LiveTaskStep)

---------------------------------------------------------------------------
(***************************************************************************)
(* Network task properties (SpecWifi, SpecWifiLive)                        *)
(***************************************************************************)
\* wifi_task has just received a command from the Command Channel.
CmdOut == last.op = "cmdout"

\* C22: while wifi_task is Connected, each iteration empties the Command
\* Channel before it reads input.  The command it writes is the oldest one
\* queued, which leaves the queue (so the commands go out in the order they
\* were queued, each at most once); what goes to the socket is the command,
\* followed by a newline unless it ends with one; the task goes on to read
\* only when it found the queue empty, and handles lines only after that.
C22_DrainBeforeRead ==
    /\ CmdOut =>
          /\ last.cmdsBefore # <<>>
          /\ gCommandQueue = Tail(last.cmdsBefore)
          /\ wifiState = "Connected" /\ wifiPhase = "drain"
          /\ (~last.err /\ Head(last.cmdsBefore) = CMD_next) => last.line = CMD_next
          /\ (~last.err /\ Head(last.cmdsBefore) = CMD_bare) =>
                last.line = CMD_bare \o <<"\n">>
          /\ last.err => last.line = <<>>
    /\ last.op = "drained" => last.cmdsBefore = <<>>
    /\ last.op = "line" => (wifiState = "Connected" /\ wifiPhase = "read")

\* The oldest of two different queued commands was written to the socket, the
\* newline added, and the other one is still queued.
C22_Witness ==
    /\ CmdOut /\ ~last.err
    /\ last.cmdsBefore = <<CMD_bare, CMD_next>>
    /\ gCommandQueue = <<CMD_next>>

\* The moves of the network task.
WifiMoves ==
    { <<"Disconnected", "Connecting">>, <<"Connecting", "Connected">>,
      <<"Connecting", "Disconnected">>, <<"Connected", "Disconnected">> }

\* C23: the network task only moves Disconnected -> Connecting -> Connected ->
\* Disconnected (and Connecting -> Disconnected on a failed connect); it handles
\* lines and takes commands out only while Connected; and whenever the link and
\* the server are available from some time on, the task is Connected from some
\* time on: a failed connect or a link loss never ends the retrying.
C23_NetworkTaskCycle ==
    /\ [][/\ wifiState' # wifiState => <<wifiState, wifiState'>> \in WifiMoves
          /\ (last' # last /\ last'.op \in {"line", "cmdout"}) =>
                (wifiState = "Connected" /\ wifiState' = "Connected")
         ]_vars
    /\ (<>[](net = NetUp)) => <>[](wifiState = "Connected")

\* The task is Connected again after a connection in which it published a
\* snapshot was lost.
C23_Witness ==
    /\ last.op = "connect" /\ last.ret
    /\ wifiState = "Connected"
    /\ gSnapshotQueue # <<>>

---------------------------------------------------------------------------
(***************************************************************************)
(* SpecQueues: the four queue calls together.  The transport task of the   *)
(* build publishes, the loop takes, the UI sends a command whatever the    *)
(* queue holds, and wifi_task (in the build that starts it) takes commands *)
(* out; in the build that starts serial_task nothing takes commands out.  *)
(***************************************************************************)
InitQueues ==
    /\ InitCommon
    /\ \E t \in Tasks : started = {t}
    /\ wifiState = "Connected"
    /\ wifiPhase = "untracked"
    /\ net = NetUp

NextQueues ==
    \/ \E t \in Tasks : TaskLine(t, L_snapA)
    \/ \E throttled \in BOOLEAN : Loop(throttled)
    \/ send_command(CMD_next)
    \/ WifiSendQueued

SpecQueues == InitQueues /\ [][NextQueues]_vars

\* C24: no task waits on another.  Whatever the Mailbox and the Command
\* Channel hold, the transport task can publish, the loop can try to take,
\* the UI can send a command, and wifi_task can take a queued command out; and
\* no step that was taken had to wait.
C24_NoTaskWaits ==
    /\ ~last.waited
    /\ \A t \in started : ENABLED TaskLine(t, L_snapA)
    /\ ENABLED Loop(FALSE)
    /\ ENABLED send_command(CMD_next)
    /\ ("wifi" \in started /\ gCommandQueue # <<>>) => ENABLED WifiSendQueued

\* A command was sent to a full Command Channel that nothing empties, while the
\* Mailbox held a snapshot.
C24_Witness ==
    /\ last.op = "command" /\ ~last.ret
    /\ Len(gCommandQueue) = CMD_QUEUE_SIZE
    /\ started = {"serial"}
    /\ gSnapshotQueue # <<>>

---------------------------------------------------------------------------
(***************************************************************************)
(* Shared state (Spec)                                                     *)
(***************************************************************************)
\* C25: the Mailbox, the Artwork Buffer and the Command Channel are the only
\* state written by one task and read or written by another: a step of a
\* transport task, the handling of an ack included, leaves alone the state that
\* the consumer loop writes, the UI's is_playing flag.
C25_TransportLeavesUiState ==
    [][last'.op = "line" => is_playing' = is_playing]_vars

---------------------------------------------------------------------------
(***************************************************************************)
(* The consumer's ui_update at the granularity of its reads and writes of  *)
(* the Artwork Buffer (SpecFresh): loop() takes a snapshot, update_artwork *)
(* tests the freshness flag, hands the raster to the image widget and then *)
(* clears the flag, and ui_update goes on to the play state.  A transport  *)
(* task may handle a line between any two of these steps.                  *)
(***************************************************************************)
\* loop(): data_model_try_dequeue; on success ui_update is entered, and it
\* returns at once when throttled.
LoopTake(throttled) ==
    /\ artUi.pc = "idle"
    /\ \E r \in {data_model_try_dequeue(gSnapshotQueue)} :
         /\ gSnapshotQueue' = r.q
         /\ pubs' = IF r.ok THEN <<>> ELSE pubs
         /\ artUi' = IF r.ok /\ ~throttled
                     THEN [artUi EXCEPT !.pc = "check", !.msg = r.item]
                     ELSE artUi
         /\ last' = [Step("take", "loop") EXCEPT
                       !.ret = r.ok, !.msg = r.item, !.pubsBefore = pubs,
                       !.again = (last.op = "take" /\ (last.ret \/ last.again))]
    /\ UNCHANGED <<gCommandQueue, gArtworkRgb565, gArtworkNew, gLastArtworkHash,
                   is_playing, started, ord, wifiState, wifiPhase, net, lineBuf, wire,
                   lastGoodB64, legacy, frm>>

\* ui_update "if (artwork_is_new())" and update_artwork "if (!artwork_is_new())
\* return;": the flag is read.
ArtworkIsNew ==
    /\ artUi.pc = "check"
    /\ artUi' = [artUi EXCEPT !.pc = IF gArtworkNew THEN "show" ELSE "rest"]
    /\ last' = [Step("isnew", "loop") EXCEPT !.ret = gArtworkNew]
    /\ UNCHANGED <<gSnapshotQueue, gCommandQueue, gArtworkRgb565, gArtworkNew,
                   gLastArtworkHash, is_playing, started, ord, wifiState, wifiPhase, net,
                   lineBuf, wire, pubs, lastGoodB64, legacy, frm>>

\* update_artwork: the raster is handed to the image widget (lv_image_set_src).
\* displayed records the image that the raster held at this step.
ArtworkShow ==
    /\ artUi.pc = "show"
    /\ artUi' = [artUi EXCEPT !.pc = "clear", !.displayed = gArtworkRgb565]
    /\ last' = Step("show", "loop")
    /\ UNCHANGED <<gSnapshotQueue, gCommandQueue, gArtworkRgb565, gArtworkNew,
                   gLastArtworkHash, is_playing, started, ord, wifiState, wifiPhase, net,
                   lineBuf, wire, pubs, lastGoodB64, legacy, frm>>

\* update_artwork: artwork_clear_new().
ArtworkClearNew ==
    /\ artUi.pc = "clear"
    /\ gArtworkNew' = FALSE
    /\ artUi' = [artUi EXCEPT !.pc = "rest"]
    /\ last' = Step("clear", "loop")
    /\ UNCHANGED <<gSnapshotQueue, gCommandQueue, gArtworkRgb565, gLastArtworkHash,
                   is_playing, started, ord, wifiState, wifiPhase, net, lineBuf, wire,
                   pubs, lastGoodB64, legacy, frm>>

\* The rest of ui_update: the play state of a message that has media.
UiUpdateRest ==
    /\ artUi.pc = "rest"
    /\ is_playing' = IF artUi.msg[1].hasMedia THEN artUi.msg[1].isPlaying
                     ELSE is_playing
    /\ artUi' = [artUi EXCEPT !.pc = "idle", !.msg = <<>>]
    /\ last' = Step("rest", "loop")
    /\ UNCHANGED <<gSnapshotQueue, gCommandQueue, gArtworkRgb565, gArtworkNew,
                   gLastArtworkHash, started, ord, wifiState, wifiPhase, net, lineBuf,
                   wire, pubs, lastGoodB64, legacy, frm>>

FreshLines == {L_snapA, StandaloneArt(P_img1), StandaloneArt(P_img2)}

InitFresh ==
    /\ InitCommon
    /\ started = {"wifi"}
    /\ wifiState = "Connected"
    /\ wifiPhase = "untracked"
    /\ net = NetUp

NextFresh ==
    \/ \E raw \in FreshLines : TaskLine("wifi", raw)
    \/ \E throttled \in BOOLEAN : LoopTake(throttled)
    \/ ArtworkIsNew
    \/ ArtworkShow
    \/ ArtworkClearNew
    \/ UiUpdateRest

SpecFresh == InitFresh /\ [][NextFresh]_vars

\* The raster holds the image of the last successful decode.
RasterHoldsDecoded ==
    /\ lastGoodB64 # <<>>
    /\ gArtworkRgb565
         = mbedtls_base64_decode([k \in 1..ARTWORK_RGB565_SIZE |-> 0],
                                 ARTWORK_RGB565_SIZE, lastGoodB64).dst

\* C26: under any interleaving of a producer's decode with the consumer's
\* update_artwork, the freshness flag is never false while the raster holds a
\* successfully decoded image that the consumer has not displayed.
C26_FlagCoversUndisplayed ==
    (~gArtworkNew /\ RasterHoldsDecoded) => artUi.displayed = gArtworkRgb565

---------------------------------------------------------------------------
(***************************************************************************)
(* SpecOrder: the read loops one character at a time, with one or both     *)
(* transport tasks started.  The host sends whole lines, and may send the  *)
(* next line before the task has read the one before; ord records what     *)
(* was sent on each transport and how many newlines its task has read.     *)
(***************************************************************************)
\* The most lines the host sends, over both transports.
MaxSent == 3

OrderBodies == {L_snapA, L_snapM, L_badSnap}

SentTotal == Len(ord["serial"].sent) + Len(ord["wifi"].sent)

\* The host writes a line and its newline to the transport that task t reads.
OrdSend(t, body) ==
    /\ t \in started
    /\ SentTotal < MaxSent
    /\ wire' = [wire EXCEPT ![t] = @ \o body \o <<"\n">>]
    /\ ord' = [ord EXCEPT ![t].sent = Append(@, body)]
    /\ last' = Step("send", t)
    /\ UNCHANGED <<gSnapshotQueue, gCommandQueue, gArtworkRgb565, gArtworkNew,
                   gLastArtworkHash, is_playing, started, artUi, wifiState, wifiPhase,
                   net, lineBuf, pubs, lastGoodB64, legacy, frm>>

\* Task t reads one character.
OrdRead(t) ==
    /\ ReadByte(t)
    /\ ord' = [ord EXCEPT ![t].read = IF Head(wire[t]) = "\n" THEN @ + 1 ELSE @]

InitOrder ==
    /\ InitCommon
    /\ started \in {{"serial"}, {"wifi"}, Tasks}
    /\ wifiState = "Connected"
    /\ wifiPhase = "untracked"
    /\ net = NetUp

NextOrder ==
    \/ \E t \in Tasks : \E body \in OrderBodies : OrdSend(t, body)
    \/ \E t \in Tasks : OrdRead(t)

SpecOrder == InitOrder /\ [][NextOrder]_vars

\* The sent line decodes to a snapshot.
DecodesOk(line) ==
    \E g \in StackGarbage : parse_json_into_msg(line, g, Art).ret

\* Among the first k lines sent on transport t, the last one that decodes
\* (0 when none does).
RECURSIVE LastGood(_, _)
LastGood(t, k) ==
    IF k = 0 THEN 0
    ELSE IF DecodesOk(ord[t].sent[k]) THEN k
    ELSE LastGood(t, k - 1)

\* C27: within one transport task, lines are classified, decoded and published
\* in the order their newlines are received: with one task started and no take,
\* once the task has read the newlines of the first k lines sent, the Mailbox
\* holds the snapshot of the last of these k lines that decoded successfully,
\* and is empty when none did.
C27_PublishedInArrivalOrder ==
    \A t \in Tasks :
      started = {t} =>
        \E n \in {LastGood(t, ord[t].read)} :
          IF n = 0 THEN gSnapshotQueue = <<>>
          ELSE \E g \in StackGarbage :
                 gSnapshotQueue = <<parse_json_into_msg(ord[t].sent[n], g, Art).msg>>

\* Three lines were sent before the first was read, the last of them fails to
\* decode, and all three newlines have been read.
C27_Witness ==
    /\ started = {"wifi"}
    /\ ord["wifi"] = [sent |-> <<L_snapA, L_snapM, L_badSnap>>, read |-> 3]
    /\ gSnapshotQueue # <<>>

\* C28: each transport task frames with its own buffer: under any
\* interleaving of the characters arriving on serial and on TCP, the buffer of
\* a task holds the characters read from its own transport since the last
\* newline, in their order of arrival, and the k-th line a task hands to the
\* classifier is the k-th line sent on its transport.
C28_OwnBufferPerTask ==
    /\ \A t \in started : lineBuf[t] = SelectSeq(frm[t].raw, NotCR)
    /\ last.op = "line" =>
          /\ ord[last.task].read \in 1..Len(ord[last.task].sent)
          /\ last.line = ord[last.task].sent[ord[last.task].read]

\* wifi_task handed on a line while serial_task was in the middle of one.
C28_Witness ==
    /\ started = Tasks
    /\ last.op = "line" /\ last.task = "wifi" /\ last.ret
    /\ lineBuf["serial"] # <<>>

---------------------------------------------------------------------------
(***************************************************************************)
(* Link loss (SpecWifi)                                                    *)
(***************************************************************************)
\* The steps of wifi_task that test the link, connect, find the connection
\* lost, or wait.
LinkOps == {"link", "connect", "loopcheck", "delay"}

\* C29: link loss and reconnect never alter consumer-visible state: a change of
\* the link, a TCP disconnect, a failed or successful connect and a back-off
\* wait leave the Mailbox, the raster, the stored hash and the freshness flag
\* unchanged; and a take by the consumer yields either the pending snapshot
\* or nothing (from an empty Mailbox), whatever the state of the link.
C29_LinkLossInvisible ==
    [][/\ (net' # net \/ last'.op \in LinkOps)
            => UNCHANGED <<gSnapshotQueue, gArtworkRgb565, gLastArtworkHash, gArtworkNew>>
       /\ (net' = net /\ last'.op = "take")
            => IF last'.ret
               THEN last'.msg = gSnapshotQueue /\ Len(gSnapshotQueue) = 1
               ELSE last'.msg = <<>> /\ gSnapshotQueue = <<>>]_vars

\* A connect has failed after a connection was lost, while a snapshot is
\* pending and a decoded image is waiting to be shown.
C29_Witness ==
    /\ last.op = "connect" /\ ~last.ret
    /\ wifiState = "Disconnected"
    /\ gSnapshotQueue # <<>>
    /\ gArtworkNew
    /\ lastGoodB64 # <<>>

---------------------------------------------------------------------------
(***************************************************************************)
(* SpecFlags: snapshot lines with and without media, artwork, queue and    *)
(* playlist, and standalone artwork, handled by one transport task.        *)
(***************************************************************************)
FlagLines ==
    {L_snapA, L_snapB, L_snapArtShort, L_snapArtEmpty, L_mediaFull, L_mediaBadSubs,
     StandaloneArt(P_img1), StandaloneArt(P_short)}

InitFlags ==
    /\ InitCommon
    /\ \E t \in Tasks : started = {t}
    /\ wifiState = "Connected"
    /\ wifiPhase = "untracked"
    /\ net = NetUp

NextFlags ==
    \/ \E t \in Tasks : \E raw \in FlagLines : TaskLine(t, raw)
    \/ \E throttled \in BOOLEAN : Loop(throttled)

SpecFlags == InitFlags /\ [][NextFlags]_vars

\* The text of the line has the key artwork_png_b64 with a string value that
\* is not empty.
CarriesArtwork(line) ==
    \E i \in {indexOf(line, K_artwork_png_b64_value)} :
      /\ i >= 0
      /\ line[i + Len(K_artwork_png_b64_value) + 1] # "\""

\* C30: in every published Snapshot the presence flags are consistent:
\* hasArtwork is true exactly when the media object carries a non-empty
\* artwork_png_b64; artworkUpdated is true exactly when that payload was decoded
\* into the raster during this message, that is, when the message set the stored
\* hash to the hash of a new payload and set the freshness flag; artworkUpdated
\* implies hasArtwork; hasArtwork, hasQueue and hasPlaylist each imply hasMedia;
\* and queueLen > 0 implies hasQueue.
C30_PresenceFlagsConsistent ==
    [][(last'.op = "line" /\ last'.ret) =>
         \E p \in {last'.msg[1]} :
           /\ p.hasArtwork = CarriesArtwork(last'.line)
           /\ p.artworkUpdated
                = (gLastArtworkHash' # gLastArtworkHash /\ gArtworkNew')
           /\ p.artworkUpdated => p.hasArtwork
           /\ p.hasArtwork => p.hasMedia
           /\ p.hasQueue => p.hasMedia
           /\ p.hasPlaylist => p.hasMedia
           /\ p.queueLen > 0 => p.hasQueue]_vars

\* A snapshot whose media announced artwork was published; the payload failed
\* to decode.
C30_Witness ==
    /\ Decoded(L_snapArtShort)
    /\ Pub.hasArtwork /\ ~Pub.artworkUpdated
    /\ last.dec.tried /\ ~last.dec.ret
    /\ gSnapshotQueue # <<>>

---------------------------------------------------------------------------
(***************************************************************************)
(* SpecClass: lines that carry more than one of the markers the classifier *)
(* searches for, handled by one transport task.                            *)
(***************************************************************************)
ClassLines ==
    {L_snapA, L_ackPlay, StandaloneArt(P_img1), StandaloneArt(P_img2), L_snapAckKey,
     L_ackCpu, L_artAck, L_artCpu, L_snapBack}

InitClass ==
    /\ InitCommon
    /\ \E t \in Tasks : started = {t}
    /\ wifiState = "Connected"
    /\ wifiPhase = "untracked"
    /\ net = NetUp

NextClass ==
    \/ \E t \in Tasks : \E raw \in ClassLines : TaskLine(t, raw)
    \/ \E throttled \in BOOLEAN : Loop(throttled)

SpecClass == InitClass /\ [][NextClass]_vars

\* The markers found in the text of the line just handled.
HasArtworkKey == indexOf(last.line, K_artwork_b64) > 0
HasCpuKey == indexOf(last.line, K_cpu_percent) >= 0
HasAckToken == indexOf(last.line, K_ack) > 0

\* C31: classification is by substring presence in a fixed priority.  A line
\* with artwork_b64 and without cpu_percent takes the artwork path: its payload
\* is offered to the decoder, no play state is set and nothing is published.
\* Otherwise a line with the token "ack" takes the ack path: no decode is
\* attempted and nothing is published, so a full snapshot with the token "ack"
\* anywhere is never published.  Otherwise the line is decoded as a snapshot:
\* a snapshot whose title merely contains the letters ack is published.
C31_ClassifiedBySubstring ==
    (last.op = "line" /\ last.handled) =>
        /\ (HasArtworkKey /\ ~HasCpuKey)
             => (last.dec.tried /\ last.play = "none" /\ ~last.ret)
        /\ (~(HasArtworkKey /\ ~HasCpuKey) /\ HasAckToken)
             => (~last.dec.tried /\ ~last.ret)
        /\ last.line = L_ackCpu => last.play = "play"
        /\ last.line \in {L_artCpu, L_snapBack, L_snapA}
             => (last.ret /\ gSnapshotQueue = last.msg /\ ~last.dec.tried
                 /\ last.play = "none")

\* A full snapshot that has the key "ack" inside media was handled and not
\* published, while an earlier snapshot is still pending.
C31_Witness ==
    /\ last.op = "line" /\ last.line = L_snapAckKey
    /\ ~last.ret
    /\ gSnapshotQueue # <<>>

---------------------------------------------------------------------------
(***************************************************************************)
(* SpecHash: standalone artwork whose payloads agree on the hashed prefix. *)
(***************************************************************************)
HashLines ==
    {StandaloneArt(P_img1), StandaloneArt(P_twin), StandaloneArt(P_img2), L_snapA}

InitHash ==
    /\ InitCommon
    /\ \E t \in Tasks : started = {t}
    /\ wifiState = "Connected"
    /\ wifiPhase = "untracked"
    /\ net = NetUp

NextHash ==
    \/ \E t \in Tasks : \E raw \in HashLines : TaskLine(t, raw)
    \/ \E throttled \in BOOLEAN : Loop(throttled)

SpecHash == InitHash /\ [][NextHash]_vars

\* Payloads a and b differ, have the same length and agree on the characters
\* that are hashed.
SamePrefixAndLength(a, b) ==
    /\ a # b
    /\ Len(a) = Len(b)
    /\ Len(a) >= HASH_PREFIX
    /\ SubSeq(a, 1, HASH_PREFIX) = SubSeq(b, 1, HASH_PREFIX)

\* C32: the dedup hash depends only on the first 100 characters of the payload
\* and on its length: after a payload has been decoded, an attempt with another
\* payload of the same length that agrees with it on the hashed prefix is
\* skipped as unchanged (it returns false; raster, stored hash and freshness
\* flag are untouched), although the image of that payload differs from the
\* raster.
C32_PrefixCollisionSkipped ==
    [][(Attempted' /\ last' # last /\ lastGoodB64 # <<>>
          /\ SamePrefixAndLength(last'.dec.b64, lastGoodB64))
         => /\ ~last'.dec.ret
            /\ gArtworkRgb565' = gArtworkRgb565
            /\ gLastArtworkHash' = gLastArtworkHash
            /\ gArtworkNew' = gArtworkNew
            /\ lastGoodB64' = lastGoodB64]_vars

\* The twin of the stored payload was attempted after the consumer had shown
\* the stored image; the raster still holds the stored image, not the twin's.
C32_Witness ==
    /\ Attempted
    /\ last.dec.b64 = P_twin
    /\ lastGoodB64 = P_img1
    /\ ~gArtworkNew
    /\ gArtworkRgb565
         # mbedtls_base64_decode([k \in 1..ARTWORK_RGB565_SIZE |-> 0],
                                 ARTWORK_RGB565_SIZE, P_twin).dst

---------------------------------------------------------------------------
(***************************************************************************)
(* SpecRender: the consumer loop with the throttle of ui_update decided by *)
(* time.  ui_update returns at once when it last ran less than             *)
(* UPDATE_INTERVAL_MS ago (artUi.recent); otherwise it runs and records    *)
(* the time.  The first call is never throttled: gLastUpdateMs starts at 0 *)
(* and setup() alone takes longer than the interval.                       *)
(***************************************************************************)
\* loop(): data_model_try_dequeue and, on success, ui_update.
LoopTimed ==
    /\ artUi.pc = "idle"
    /\ \E r \in {data_model_try_dequeue(gSnapshotQueue)} :
         LET shown == r.ok /\ ~artUi.recent
         IN  /\ gSnapshotQueue' = r.q
             /\ gArtworkNew' = IF shown THEN FALSE ELSE gArtworkNew
             /\ is_playing' = IF shown /\ r.item[1].hasMedia THEN r.item[1].isPlaying
                              ELSE is_playing
             /\ artUi' = [artUi EXCEPT
                            !.recent = IF shown THEN TRUE ELSE @,
                            !.displayed = IF shown /\ gArtworkNew THEN gArtworkRgb565
                                          ELSE @]
             /\ pubs' = IF r.ok THEN <<>> ELSE pubs
             /\ last' = [Step("take", "loop") EXCEPT
                           !.ret = r.ok, !.msg = r.item, !.pubsBefore = pubs,
                           !.again = (last.op = "take" /\ (last.ret \/ last.again))]
    /\ UNCHANGED <<gCommandQueue, gArtworkRgb565, gLastArtworkHash, started, ord,
                   wifiState, wifiPhase, net, lineBuf, wire, lastGoodB64, legacy, frm>>

\* UPDATE_INTERVAL_MS go by without a call of ui_update.
IntervalPasses ==
    /\ artUi.recent
    /\ artUi' = [artUi EXCEPT !.recent = FALSE]
    /\ last' = Step("interval", "loop")
    /\ UNCHANGED <<gSnapshotQueue, gCommandQueue, gArtworkRgb565, gArtworkNew,
                   gLastArtworkHash, is_playing, started, ord, wifiState, wifiPhase,
                   net, lineBuf, wire, pubs, lastGoodB64, legacy, frm>>

RenderLines == {L_snapA, L_snapPlaying, StandaloneArt(P_img1), StandaloneArt(P_img2)}

InitRender ==
    /\ InitCommon
    /\ \E t \in Tasks : started = {t}
    /\ wifiState = "Connected"
    /\ wifiPhase = "untracked"
    /\ net = NetUp

NextRender ==
    \/ \E t \in Tasks : \E raw \in RenderLines : TaskLine(t, raw)
    \/ LoopTimed
    \/ IntervalPasses

SpecRender == InitRender /\ [][NextRender]_vars

\* C33: the consumer loop renders every snapshot it takes from the Mailbox: a
\* snapshot with media that the loop has removed from the Mailbox is applied
\* to the UI, whose play state is then the snapshot's.
C33_TakenSnapshotRendered ==
    (last.op = "take" /\ last.ret /\ last.msg[1].hasMedia)
        => is_playing = last.msg[1].isPlaying

\* SpecRenderLive: the same, with a loop task that keeps running and time that
\* keeps passing.  Nothing obliges the host to send another line.
SpecRenderLive ==
    /\ InitRender
    /\ [][NextRender]_vars
    /\ WF_vars(LoopTimed)
    /\ WF_vars(IntervalPasses)

\* C34: once an artwork payload has decoded successfully and set the freshness
\* flag, the running consumer loop eventually displays it and clears the flag,
\* also when no snapshot message follows.
C34_FreshArtworkShown == gArtworkNew ~> ~gArtworkNew

---------------------------------------------------------------------------
(***************************************************************************)
(* Raster and stored hash (SpecArt)                                        *)
(***************************************************************************)
\* C35: in every reachable state where some artwork has been decoded
\* successfully, the raster equals the decode of the payload whose hash is
\* stored in gLastArtworkHash (the payload of the last successful decode).
C35_RasterMatchesStoredHash ==
    lastGoodB64 # <<>> =>
        /\ gLastArtworkHash = quickHash(lastGoodB64, Len(lastGoodB64))
        /\ RasterHoldsDecoded

---------------------------------------------------------------------------
(***************************************************************************)
(* Commands across a link loss (SpecWifi)                                  *)
(***************************************************************************)
\* C36, as claimed: commands enqueued while the network task is not Connected
\* are all written to the socket after the next successful connect: every
\* command that wifi_task takes out of the Command Channel is written.
C36_QueuedCommandsAllWritten ==
    CmdOut => (~last.err /\ last.line # <<>>)

\* C36, amended: the link test, a failed or successful connect, the loop test
\* that finds the connection lost and a change of the link leave the Command
\* Channel as it is; after a successful connect the first thing the task does,
\* once it finds the connection standing, is to take commands out, oldest
\* first; and a command taken out is written to the socket when the connection
\* stands at that moment, and is lost when it does not.
C36_QueuedCommandsKept ==
    [][/\ (net' # net \/ (last' # last /\ last'.op \in {"link", "connect", "loopcheck"}))
            => gCommandQueue' = gCommandQueue
       /\ (last' # last /\ last'.op = "cmdout")
            => /\ gCommandQueue # <<>>
               /\ gCommandQueue' = Tail(gCommandQueue)
               /\ IF net.tcp
                  THEN /\ Len(last'.line) >= Len(Head(gCommandQueue))
                       /\ SubSeq(last'.line, 1, Len(Head(gCommandQueue)))
                            = Head(gCommandQueue)
                  ELSE last'.line = <<>>
       /\ (last' # last /\ last'.task = "wifi" /\ last.op = "connect" /\ last.ret)
            => last'.op = "loopcheck"
       /\ (last' # last /\ last'.task = "wifi" /\ last.op = "loopcheck" /\ last.ret)
            => last'.op \in {"cmdout", "drained"}]_vars

\* A connect has failed while the Command Channel held the commands queued
\* during the outage; they are still queued.
C36_Witness ==
    /\ last.op = "connect" /\ ~last.ret
    /\ wifiState = "Disconnected"
    /\ gCommandQueue = <<CMD_bare, CMD_next>>

---------------------------------------------------------------------------
(***************************************************************************)
(* SpecReconnect: wifi_task reading single characters over connections     *)
(* that come and go.  On each connection the host sends whole lines, or    *)
(* the first half of a line and then its second half; a connection may be  *)
(* lost at any point, and what the task has not read of it is lost with    *)
(* the WiFiClient.  ord["wifi"].sent holds the fragment the host sent last *)
(* on the present connection.                                              *)
(***************************************************************************)
ReconnectBodies == {L_snapA, L_snapM}

FirstHalf(body) == SubSeq(body, 1, Len(body) \div 2)
SecondHalf(body) == SubSeq(body, Len(body) \div 2 + 1, Len(body)) \o <<"\n">>

\* What the host may send next on the present connection.
NextFragments ==
    IF ord["wifi"].sent # <<>> /\ \E b \in ReconnectBodies : ord["wifi"].sent[1] = FirstHalf(b)
    THEN {SecondHalf(b) : b \in {c \in ReconnectBodies : ord["wifi"].sent[1] = FirstHalf(c)}}
    ELSE {b \o <<"\n">> : b \in ReconnectBodies} \cup {FirstHalf(b) : b \in ReconnectBodies}

\* The passes of the for loop that end in a connect: WiFi is up, and
\* client.connect fails (delay, next pass) or succeeds (lineBuf = "", and a
\* new WiFiClient that has received nothing).  last.line keeps what the
\* buffer held when the connect was made.
TcpConnect ==
    /\ "wifi" \in started
    /\ wifiState = "Disconnected"
    /\ net.wifi
    /\ IF net.tcp
       THEN /\ wifiState' = "Connected"
            /\ lineBuf' = [lineBuf EXCEPT !["wifi"] = connectLineBuf(@)]
            /\ frm' = [frm EXCEPT !["wifi"] = NoFrame]
            /\ wire' = [wire EXCEPT !["wifi"] = <<>>]
            /\ ord' = [ord EXCEPT !["wifi"] = NoOrd]
       ELSE UNCHANGED <<wifiState, lineBuf, frm, wire, ord>>
    /\ last' = [Step("connect", "wifi") EXCEPT !.ret = net.tcp,
                                               !.line = lineBuf["wifi"]]
    /\ UNCHANGED <<gSnapshotQueue, gCommandQueue, gArtworkRgb565, gArtworkNew,
                   gLastArtworkHash, is_playing, started, artUi, wifiPhase, net, pubs,
                   lastGoodB64, legacy>>

\* The while condition fails: client.stop(), and what was not read is gone.
TcpLost ==
    /\ "wifi" \in started
    /\ wifiState = "Connected"
    /\ ~(net.tcp /\ net.wifi)
    /\ wifiState' = "Disconnected"
    /\ wire' = [wire EXCEPT !["wifi"] = <<>>]
    /\ last' = [Step("loopcheck", "wifi") EXCEPT !.ret = FALSE]
    /\ UNCHANGED <<gSnapshotQueue, gCommandQueue, gArtworkRgb565, gArtworkNew,
                   gLastArtworkHash, is_playing, started, artUi, ord, wifiPhase, net,
                   lineBuf, pubs, lastGoodB64, legacy, frm>>

\* The host writes a fragment to the connection.
TcpSend(bytes) ==
    /\ wifiState = "Connected" /\ net.tcp /\ net.wifi
    /\ wire["wifi"] = <<>>
    /\ bytes \in NextFragments
    /\ wire' = [wire EXCEPT !["wifi"] = bytes]
    /\ ord' = [ord EXCEPT !["wifi"].sent = <<bytes>>]
    /\ last' = Step("send", "wifi")
    /\ UNCHANGED <<gSnapshotQueue, gCommandQueue, gArtworkRgb565, gArtworkNew,
                   gLastArtworkHash, is_playing, started, artUi, wifiState, wifiPhase,
                   net, lineBuf, pubs, lastGoodB64, legacy, frm>>

\* wifi_task reads one character of the connection.
TcpRead ==
    /\ ReadByte("wifi")
    /\ UNCHANGED ord

ReconnectFragments ==
    {b \o <<"\n">> : b \in ReconnectBodies}
    \cup {FirstHalf(b) : b \in ReconnectBodies}
    \cup {SecondHalf(b) : b \in ReconnectBodies}

InitReconnect ==
    /\ InitCommon
    /\ started = {"wifi"}
    /\ wifiState = "Disconnected"
    /\ wifiPhase = "untracked"
    /\ net \in [wifi : BOOLEAN, tcp : BOOLEAN]

NextReconnect ==
    \/ TcpConnect
    \/ TcpLost
    \/ \E bytes \in ReconnectFragments : TcpSend(bytes)
    \/ TcpRead
    \/ NetChange

SpecReconnect == InitReconnect /\ [][NextReconnect]_vars

\* C37: the TCP line buffer is emptied on every successful connect, so the
\* characters of an unterminated line received before a link loss are never
\* joined with characters received on the next connection: right after a
\* successful connect the buffer is empty, and every line handed to the
\* classifier on TCP is a line that the host sent on one connection.
C37_LineFromOneConnection ==
    /\ (last.op = "connect" /\ last.ret) => lineBuf["wifi"] = <<>>
    /\ (last.op = "line" /\ last.task = "wifi") => last.line \in ReconnectBodies

\* A successful connect found the first half of a line, left by a connection
\* lost in the middle of that line, and emptied the buffer.
C37_Witness ==
    /\ last.op = "connect" /\ last.ret
    /\ last.line = FirstHalf(L_snapA)
    /\ lineBuf["wifi"] = <<>>
    /\ wifiState = "Connected"

\* The buffer of a Line Framer is within the cap and free of line ends.
FramerBufferOk(buf) ==
    /\ Len(buf) <= LINE_CAP
    /\ \A i \in 1..Len(buf) : buf[i] # "\n" /\ buf[i] # "\r"

\* C38: after every character fed to a Line Framer its buffer holds at most
\* LINE_CAP characters and neither a newline nor a carriage return; it is
\* empty right after a newline and right after an overflow reset; and every
\* line handed on is at most LINE_CAP characters long.
C38_FramerBufferBounded ==
    /\ \A t \in Tasks : FramerBufferOk(lineBuf[t])
    /\ last.op = "line" => (lineBuf[last.task] = <<>> /\ Len(last.line) <= LINE_CAP)
    /\ (last.op = "byte" /\ last.reset) => lineBuf[last.task] = <<>>

\* A character was appended and the buffer holds exactly LINE_CAP characters,
\* all those read since the last newline.
C38_Witness ==
    /\ last.op = "byte" /\ ~last.reset
    /\ Len(lineBuf[last.task]) = LINE_CAP
    /\ Len(frm[last.task].raw) = LINE_CAP

---------------------------------------------------------------------------
(***************************************************************************)
(* SpecShort: one transport task and the consumer loop, for lines around   *)
(* the minimum length: the empty line, {} with and without blanks around   *)
(* it, objects of 5 and of 6 characters, and lines that set playback       *)
(* state, artwork and the Mailbox.                                         *)
(***************************************************************************)
ShortLines ==
    {<<>>, L_braces, L_bracesPadded, L_braces5, L_braces6, L_snapA, L_ackPlay,
     StandaloneArt(P_img1)}

InitShort ==
    /\ InitCommon
    /\ \E t \in Tasks : started = {t}
    /\ wifiState = "Connected"
    /\ wifiPhase = "untracked"
    /\ net = NetUp

NextShort ==
    \/ \E t \in Tasks : \E raw \in ShortLines : TaskLine(t, raw)
    \/ \E throttled \in BOOLEAN : Loop(throttled)

SpecShort == InitShort /\ [][NextShort]_vars

\* C39: a framed line whose trimmed length is MIN_LINE_LEN characters or
\* fewer is dropped before classification: the step that handles it
\* publishes no Snapshot and leaves the Mailbox, the raster, the stored hash,
\* the freshness flag and the playback state as they were.
C39_ShortLineDropped ==
    [][(last'.op = "line" /\ Len(last'.line) <= MIN_LINE_LEN)
         => /\ ~last'.handled
            /\ ~last'.ret
            /\ last'.msg = <<>>
            /\ UNCHANGED <<gSnapshotQueue, pubs, gArtworkRgb565, gArtworkNew,
                           gLastArtworkHash, lastGoodB64, is_playing>>]_vars

\* An object of exactly MIN_LINE_LEN characters was dropped while the Mailbox
\* held a Snapshot, artwork was fresh and playback was on.
C39_Witness ==
    /\ last.op = "line" /\ last.line = L_braces5 /\ ~last.handled
    /\ gSnapshotQueue # <<>>
    /\ gArtworkNew
    /\ is_playing

---------------------------------------------------------------------------
(***************************************************************************)
(* SpecMinLen: one transport task and the consumer loop, for artwork       *)
(* payloads of several lengths, standalone and inside a media object:      *)
(* empty, at the standalone minimum, above it, and a full raster.          *)
(***************************************************************************)
MinLenPayloads == {<<>>, P_tiny, P_short, P_img1, P_img2}

MinLenLines ==
    {StandaloneArt(p) : p \in {P_tiny, P_short, P_img1}}
    \cup {MediaArt(p) : p \in MinLenPayloads}
    \cup {L_snapA}

InitMinLen ==
    /\ InitCommon
    /\ \E t \in Tasks : started = {t}
    /\ wifiState = "Connected"
    /\ wifiPhase = "untracked"
    /\ net = NetUp

NextMinLen ==
    \/ \E t \in Tasks : \E raw \in MinLenLines : TaskLine(t, raw)
    \/ \E throttled \in BOOLEAN : Loop(throttled)

SpecMinLen == InitMinLen /\ [][NextMinLen]_vars

\* The step handles a standalone artwork message whose payload is at most
\* STANDALONE_MIN_B64 characters long: decodeArtworkB64 is not called, and
\* raster, stored hash and freshness flag stay as they were.
ShortStandaloneSkipped ==
    \A p \in MinLenPayloads :
        (last'.op = "line" /\ last'.line = StandaloneArt(p)
         /\ Len(p) <= STANDALONE_MIN_B64)
        => /\ ~last'.dec.tried
           /\ UNCHANGED <<gArtworkRgb565, gLastArtworkHash, gArtworkNew, lastGoodB64>>

\* The step handles a snapshot whose media object has the artwork_png_b64 p,
\* not empty: decodeArtworkB64 is called with p.
MediaArtworkDecoded(p) ==
    (last'.op = "line" /\ last'.line = MediaArt(p) /\ Len(p) > 0)
    => (last'.dec.tried /\ last'.dec.b64 = p)

\* C40: a standalone artwork message whose artwork_b64 is STANDALONE_MIN_B64
\* characters or shorter is never passed to the decoder, and raster, stored
\* hash and freshness flag are unchanged; an artwork_png_b64 inside a media
\* object is passed to the decoder for any non-empty length.
C40_MinimumOnlyForStandalone ==
    [][/\ ShortStandaloneSkipped
       /\ \A p \in MinLenPayloads : MediaArtworkDecoded(p)]_vars

\* The same for the media payloads that fit the document of the snapshot
\* branch.
MinimumOnlyForStandaloneWithinDocument ==
    [][/\ ShortStandaloneSkipped
       /\ \A p \in {P_tiny, P_short} : MediaArtworkDecoded(p)]_vars

\* A payload at the standalone minimum, inside a media object, was passed to
\* the decoder while an image was stored.
MinLenMediaTried ==
    /\ last.op = "line" /\ last.line = MediaArt(P_tiny)
    /\ last.dec.tried /\ last.dec.b64 = P_tiny
    /\ lastGoodB64 = P_img1

\* A standalone payload at the minimum was skipped while an image was stored.
MinLenStandaloneSkipped ==
    /\ last.op = "line" /\ last.line = StandaloneArt(P_tiny)
    /\ last.handled /\ ~last.dec.tried
    /\ lastGoodB64 = P_img1 /\ gArtworkNew

=============================================================================
